---- MODULE Spec2Model ----
(***************************************************************************)
(* Database-access firewall: access control, injection detection,          *)
(* honeypot, security logger, the DatabaseFirewall orchestrator and the     *)
(* connection/cursor wrappers built on it.                                  *)
(*                                                                          *)
(* Text is modelled as a sequence of tokens (words, numbers, punctuation,   *)
(* quote characters); whitespace separates word tokens.  A regular          *)
(* expression of the source is modelled by the token shapes it accepts.     *)
(***************************************************************************)
EXTENDS Integers, Sequences, FiniteSets, TLC

(***************************************************************************)
(* Bounds                                                                   *)
(***************************************************************************)
MaxCalls == 3
MaxExecutes == 2

(***************************************************************************)
(* Generic helpers                                                          *)
(***************************************************************************)
Range(s) == {s[i] : i \in 1..Len(s)}

\* str.upper() on the words the model uses
Upper(s) ==
    CASE s = "select" -> "SELECT"
      [] s = "insert" -> "INSERT"
      [] s = "update" -> "UPDATE"
      [] s = "delete" -> "DELETE"
      [] s = "from"   -> "FROM"
      [] s = "or"     -> "OR"
      [] s = "drop"   -> "DROP"
      [] s = "table"  -> "TABLE"
      [] s = "union"  -> "UNION"
      [] OTHER        -> s

UpperSeq(q) == [i \in 1..Len(q) |-> Upper(q[i])]

(***************************************************************************)
(* config/database_config.py                                                *)
(***************************************************************************)
\* An address or whitelist entry as written: the text before an optional
\* "/prefix", split at the dots; prefix = -1 when the text has no "/".
Txt(parts, prefix) == [parts |-> parts, prefix |-> prefix]

AUTHORIZED_APPS ==
    [ webapp_frontend |->
        [ time_windows       |-> << <<9, 17>> >>,
          allowed_operations |-> <<"SELECT", "INSERT", "UPDATE">>,
          ip_whitelist       |-> << Txt(<<"192", "168", "1", "0">>, 24) >> ],
      backup_service |->
        [ time_windows       |-> << <<2, 4>> >>,
          allowed_operations |-> <<"SELECT">>,
          ip_whitelist       |-> << Txt(<<"10", "0", "0", "5">>, -1) >> ],
      admin_panel |->
        [ time_windows       |-> << <<0, 23>> >>,
          allowed_operations |-> <<"SELECT", "INSERT", "UPDATE", "DELETE">>,
          ip_whitelist       |-> << Txt(<<"192", "168", "1", "100">>, -1) >> ],
      shop_api |->
        [ time_windows       |-> << <<0, 23>> >>,
          allowed_operations |-> <<"SELECT", "INSERT", "UPDATE", "DELETE">>,
          ip_whitelist       |-> << Txt(<<"127", "0", "0", "1">>, -1), Txt(<<"::1">>, -1) >> ],
      demo_app |->
        [ time_windows       |-> << <<0, 23>> >>,
          allowed_operations |-> <<"SELECT", "INSERT", "UPDATE", "DELETE", "CREATE">>,
          ip_whitelist       |-> << Txt(<<"127", "0", "0", "1">>, -1), Txt(<<"::1">>, -1) >> ],
      fastapi_app |->
        [ time_windows       |-> << <<0, 23>> >>,
          allowed_operations |-> <<"SELECT", "INSERT", "UPDATE">>,
          ip_whitelist       |-> << Txt(<<"*">>, -1) >> ],
      flask_app |->
        [ time_windows       |-> << <<0, 23>> >>,
          allowed_operations |-> <<"SELECT", "INSERT", "UPDATE">>,
          ip_whitelist       |-> << Txt(<<"*">>, -1) >> ],
      django_app |->
        [ time_windows       |-> << <<0, 23>> >>,
          allowed_operations |-> <<"SELECT", "INSERT", "UPDATE", "DELETE">>,
          ip_whitelist       |-> << Txt(<<"*">>, -1) >> ] ]

(***************************************************************************)
(* ipaddress (standard library), as far as access_control.py uses it        *)
(***************************************************************************)
\* decimal octets without leading zeros
Octet(s) ==
    CASE s = "0" -> 0 [] s = "1" -> 1 [] s = "2" -> 2 [] s = "3" -> 3
      [] s = "4" -> 4 [] s = "5" -> 5 [] s = "10" -> 10 [] s = "50" -> 50
      [] s = "99" -> 99 [] s = "100" -> 100 [] s = "127" -> 127
      [] s = "168" -> 168 [] s = "192" -> 192 [] s = "255" -> 255
      [] OTHER -> -1

NoAddr == [ver |-> 0, o |-> <<>>]

\* ipaddress.ip_address(text): an address object, or NoAddr for ValueError
ip_address(t) ==
    IF t.prefix # -1 THEN NoAddr
    ELSE IF Len(t.parts) = 4 /\ \A i \in 1..4 : Octet(t.parts[i]) >= 0
         THEN [ver |-> 4, o |-> [i \in 1..4 |-> Octet(t.parts[i])]]
    ELSE IF t.parts \in { <<"::1">>, <<"0:0:0:0:0:0:0:1">> }
         THEN [ver |-> 6, o |-> <<1>>]
    ELSE NoAddr

\* str(ip_obj): the canonical text
OctetStr(n) ==
    CASE n = 0 -> "0" [] n = 1 -> "1" [] n = 2 -> "2" [] n = 3 -> "3"
      [] n = 4 -> "4" [] n = 5 -> "5" [] n = 10 -> "10" [] n = 50 -> "50"
      [] n = 99 -> "99" [] n = 100 -> "100" [] n = 127 -> "127"
      [] n = 168 -> "168" [] n = 192 -> "192" [] n = 255 -> "255"
      [] OTHER -> "?"

ip_str(a) ==
    IF a.ver = 4 THEN Txt([i \in 1..4 |-> OctetStr(a.o[i])], -1)
    ELSE Txt(<<"::1">>, -1)

Pow2(n) == CASE n = 0 -> 1 [] n = 1 -> 2 [] n = 2 -> 4 [] n = 3 -> 8 [] n = 4 -> 16
             [] n = 5 -> 32 [] n = 6 -> 64 [] n = 7 -> 128 [] OTHER -> 256

\* ip_obj in ipaddress.ip_network(entry): "yes", "no", or "error" when
\* ip_network raises ValueError (bad address, bad prefix, host bits set)
in_network(a, entry) ==
    LET net == ip_address(Txt(entry.parts, -1))
        p   == entry.prefix
        keep(i) == IF p >= 8 * i THEN 1
                   ELSE IF p <= 8 * (i - 1) THEN 256
                   ELSE Pow2(8 * i - p)
    IN IF net.ver # 4 \/ p < 0 \/ p > 32 THEN "error"
       ELSE IF \E i \in 1..4 : net.o[i] % keep(i) # 0 THEN "error"
       ELSE IF a.ver # 4 THEN "no"
       ELSE IF \A i \in 1..4 : a.o[i] \div keep(i) = net.o[i] \div keep(i)
            THEN "yes" ELSE "no"

(***************************************************************************)
(* core/access_control.py                                                   *)
(***************************************************************************)
\* the window test with the end hour included
_check_time_window_closed(current_hour, windows) ==
    \E i \in 1..Len(windows) :
        windows[i][1] <= current_hour /\ current_hour <= windows[i][2]

_check_time_window(current_hour, windows) ==
    \E i \in 1..Len(windows) :
        windows[i][1] <= current_hour /\ current_hour < windows[i][2]

RECURSIVE WhitelistScan(_, _, _)
\* the for loop of _check_ip_whitelist from entry i on
WhitelistScan(a, whitelist, i) ==
    IF i > Len(whitelist) THEN FALSE
    ELSE IF whitelist[i].prefix # -1
         THEN LET r == in_network(a, whitelist[i])
              IN IF r = "error" THEN FALSE
                 ELSE IF r = "yes" THEN TRUE
                 ELSE WhitelistScan(a, whitelist, i + 1)
         ELSE IF ip_str(a) = whitelist[i] THEN TRUE
              ELSE WhitelistScan(a, whitelist, i + 1)

_check_ip_whitelist(ip, whitelist) ==
    LET a == ip_address(ip)
    IN IF a = NoAddr THEN FALSE ELSE WhitelistScan(a, whitelist, 1)

AppIds == DOMAIN AUTHORIZED_APPS

\* the checks with the operation tested before the time window
is_authorized_op_first(app_id, ip_address_, operation, current_hour) ==
    IF app_id \notin AppIds
    THEN <<FALSE, "Unknown application">>
    ELSE LET app_config == AUTHORIZED_APPS[app_id]
         IN IF Upper(operation) \notin Range(app_config.allowed_operations)
            THEN <<FALSE, "Unauthorized operation">>
            ELSE IF ~_check_time_window(current_hour, app_config.time_windows)
            THEN <<FALSE, "Outside authorized time window">>
            ELSE IF ~_check_ip_whitelist(ip_address_, app_config.ip_whitelist)
            THEN <<FALSE, "IP not whitelisted">>
            ELSE <<TRUE, "Authorized">>

is_authorized(app_id, ip_address_, operation, current_hour) ==
    IF app_id \notin AppIds
    THEN <<FALSE, "Unknown application">>
    ELSE LET app_config == AUTHORIZED_APPS[app_id]
         IN IF ~_check_time_window(current_hour, app_config.time_windows)
            THEN <<FALSE, "Outside authorized time window">>
            ELSE IF Upper(operation) \notin Range(app_config.allowed_operations)
            THEN <<FALSE, "Unauthorized operation">>
            ELSE IF ~_check_ip_whitelist(ip_address_, app_config.ip_whitelist)
            THEN <<FALSE, "IP not whitelisted">>
            ELSE <<TRUE, "Authorized">>

(***************************************************************************)
(* security/injection_detector.py                                           *)
(***************************************************************************)
IsQuote(t) == t \in {"'", "\""}
IsDigits(t) == t \in {"0", "1", "2", "3", "5", "9"}
At(U, j) == IF j >= 1 /\ j <= Len(U) THEN U[j] ELSE "<end>"
SkipQ(U, j) == IF IsQuote(At(U, j)) THEN j + 1 ELSE j
Adjacent(U, a, b) == \E i \in 1..Len(U) : U[i] = a /\ At(U, i + 1) = b

\* \bKW\b\s+['"]?\d+['"]?\s*=\s*['"]?\d+['"]?
KwNumEq(U, kw) ==
    \E i \in 1..Len(U) :
        /\ U[i] = kw
        /\ LET a == SkipQ(U, i + 1)
               b == SkipQ(U, a + 1)
               c == SkipQ(U, b + 1)
           IN IsDigits(At(U, a)) /\ At(U, b) = "=" /\ IsDigits(At(U, c))

_STRONG_PATTERNS ==
    << "UNION SELECT", "delimiters/comments", "OR n=n", "AND n=n", "DROP TABLE",
       "DELETE FROM", "INSERT INTO .. SELECT", "sleep(", "benchmark(", "EXEC(UTE)" >>

_WEAK_PATTERNS ==
    << "INFORMATION_SCHEMA", "PG_SLEEP", "0x hex blob", "char(", "cast(" >>

\* RE_STRONG[k].search(q), U the text with case folded (re.IGNORECASE)
StrongMatch(k, U) ==
    CASE k = 1  -> Adjacent(U, "UNION", "SELECT")
      [] k = 2  -> \E i \in 1..Len(U) : U[i] \in {";", "a--b", "a/*b", "a*/b"}
      [] k = 3  -> KwNumEq(U, "OR")
      [] k = 4  -> KwNumEq(U, "AND")
      [] k = 5  -> Adjacent(U, "DROP", "TABLE")
      [] k = 6  -> Adjacent(U, "DELETE", "FROM")
      [] k = 7  -> \E i \in 1..Len(U) : /\ U[i] = "INSERT" /\ At(U, i + 1) = "INTO"
                                         /\ \E j \in (i + 2)..Len(U) : U[j] = "SELECT"
      [] k = 8  -> \/ \E i \in 1..Len(U) : U[i] \in {"SLEEP(", "PG_SLEEP("}
                   \/ Adjacent(U, "SLEEP", "(") \/ Adjacent(U, "PG_SLEEP", "(")
      [] k = 9  -> (\E i \in 1..Len(U) : U[i] = "BENCHMARK(") \/ Adjacent(U, "BENCHMARK", "(")
      [] OTHER  -> \E i \in 1..Len(U) : U[i] \in {"EXEC", "EXECUTE"}

\* RE_WEAK[k].search(q)
WeakMatch(k, U) ==
    CASE k = 1  -> \E i \in 1..Len(U) : U[i] = "INFORMATION_SCHEMA"
      [] k = 2  -> \E i \in 1..Len(U) : U[i] \in {"PG_SLEEP", "PG_SLEEP("}
      [] k = 3  -> \E i \in 1..Len(U) : U[i] \in {"0xdeadbeef", "0XDEADBEEF"}
      [] k = 4  -> \E i \in 1..Len(U) : U[i] = "CHAR("
      [] OTHER  -> \E i \in 1..Len(U) : U[i] = "CAST("

First(S) == CHOOSE k \in S : \A j \in S : k <= j

detect_sql_injection(query) ==
    LET U  == UpperSeq(query)
        sm == {k \in 1..Len(_STRONG_PATTERNS) : StrongMatch(k, U)}
        wm == {k \in 1..Len(_WEAK_PATTERNS) : WeakMatch(k, U)}
    IN IF query = <<>> THEN <<FALSE, "">>
       ELSE IF \E i \in 1..Len(U) : U[i] = ";"
            THEN <<TRUE, "Multiple statements or semicolon found">>
       ELSE IF sm # {} THEN <<TRUE, _STRONG_PATTERNS[First(sm)]>>
       ELSE IF wm # {} THEN <<TRUE, _WEAK_PATTERNS[First(wm)]>>
       ELSE IF KwNumEq(U, "OR") THEN <<TRUE, "Always-true OR condition detected">>
       ELSE <<FALSE, "">>

\* score_sql_risk, in tenths (0.5 is 5, 0.6 is 6, 0.2 is 2, the cap 1.0 is 10)
SumScore(query) ==
    LET U  == UpperSeq(query)
        sm == {k \in 1..Len(_STRONG_PATTERNS) : StrongMatch(k, U)}
        wm == {k \in 1..Len(_WEAK_PATTERNS) : WeakMatch(k, U)}
    IN (IF \E i \in 1..Len(U) : U[i] = ";" THEN 5 ELSE 0)
       + 6 * Cardinality(sm) + 2 * Cardinality(wm)
       + (IF KwNumEq(U, "OR") THEN 6 ELSE 0)

\* the score without the cap at 1.0
score_sql_risk_uncapped(query) ==
    IF query = <<>> THEN 0
    ELSE SumScore(query)

score_sql_risk(query) ==
    IF query = <<>> THEN 0
    ELSE IF SumScore(query) > 10 THEN 10 ELSE SumScore(query)

(***************************************************************************)
(* sqlite3: one table "users"; a row is [id, username, gen], gen telling    *)
(* which generate_users call produced a synthetic row (0: not synthetic).   *)
(***************************************************************************)
Store(tbl, rows) == [tbl |-> tbl, rows |-> rows]

Num(t) == CASE t = "0" -> 0 [] t = "1" -> 1 [] t = "2" -> 2 [] t = "3" -> 3
            [] t = "5" -> 5 [] t = "9" -> 9 [] OTHER -> -1

RECURSIVE RowsSorted(_)
\* rows in rowid order, as a cursor yields them
RowsSorted(S) ==
    IF S = {} THEN <<>>
    ELSE LET m == CHOOSE r \in S : \A x \in S : r.id <= x.id
         IN <<m>> \o RowsSorted(S \ {m})

Unquoted(c) == SelectSeq(c, LAMBDA t : ~IsQuote(t))

\* a WHERE clause of the form  a = b [OR a = b]...
CondOk(c) ==
    LET u == Unquoted(c)
    IN /\ Len(u) % 4 = 3
       /\ (Len(c) - Len(u)) % 2 = 0
       /\ \A i \in 1..Len(u) : (i % 4 = 2 => u[i] = "=") /\ (i % 4 = 0 => Upper(u[i]) = "OR")

CondHolds(c, row) ==
    LET u == Unquoted(c)
    IN \E k \in 0..(Len(u) \div 4) :
          LET a == u[4 * k + 1]
              b == u[4 * k + 3]
          IN IF a = "id" THEN row.id = Num(b)
             ELSE IF a = "username" THEN row.username = b
             ELSE a = b

SqlErr(store, e) == [err |-> e, store |-> store, res |-> <<>>, kind |-> "none"]

\* INSERT INTO users (username, ...) VALUES (?, ...): the rowid is one more
\* than the largest rowid in the table
InsertUser(store, username) ==
    LET ids == {r.id : r \in store.rows}
        id  == IF ids = {} THEN 1 ELSE 1 + CHOOSE m \in ids : \A j \in ids : j <= m
    IN Store(store.tbl, store.rows \cup {[id |-> id, username |-> username, gen |-> 0]})

\* cursor.execute(query) without bound parameters, on the connection's
\* view of the database: the error raised (if any), the view afterwards,
\* the result set, and the kind of statement
SqlExec(store, query) ==
    LET U    == UpperSeq(query)
        n    == Len(U)
        semi == {i \in 1..n : U[i] = ";"}
    IN IF n = 0 THEN [err |-> "", store |-> store, res |-> <<>>, kind |-> "none"]
       ELSE IF semi # {} THEN SqlErr(store, "ProgrammingError")
       ELSE IF \E i \in 1..n : U[i] = "?" THEN SqlErr(store, "ProgrammingError")
       ELSE IF n >= 4 /\ SubSeq(U, 1, 3) = <<"SELECT", "*", "FROM">>
       THEN IF U[4] # "users" \/ ~store.tbl THEN SqlErr(store, "OperationalError")
            ELSE IF n = 4
                 THEN [err |-> "", store |-> store, res |-> RowsSorted(store.rows), kind |-> "select"]
            ELSE IF U[5] = "WHERE" /\ CondOk(SubSeq(query, 6, n))
                 THEN [err |-> "", store |-> store, kind |-> "select",
                       res |-> RowsSorted({r \in store.rows : CondHolds(SubSeq(query, 6, n), r)})]
            ELSE SqlErr(store, "OperationalError")
       ELSE IF n >= 3 /\ SubSeq(U, 1, 2) = <<"DELETE", "FROM">>
       THEN IF U[3] # "users" \/ ~store.tbl THEN SqlErr(store, "OperationalError")
            ELSE IF n = 3
                 THEN [err |-> "", store |-> Store(TRUE, {}), res |-> <<>>, kind |-> "dml"]
            ELSE IF U[4] = "WHERE" /\ CondOk(SubSeq(query, 5, n))
                 THEN [err |-> "", res |-> <<>>, kind |-> "dml",
                       store |-> Store(TRUE, {r \in store.rows : ~CondHolds(SubSeq(query, 5, n), r)})]
            ELSE SqlErr(store, "OperationalError")
       ELSE IF n = 10 /\ SubSeq(U, 1, 8) = <<"INSERT", "INTO", "users", "(", "id", ")", "VALUES", "(">>
                      /\ U[10] = ")"
       THEN IF ~store.tbl \/ Num(U[9]) < 0 THEN SqlErr(store, "OperationalError")
            ELSE IF \E r \in store.rows : r.id = Num(U[9]) THEN SqlErr(store, "IntegrityError")
            ELSE [err |-> "", res |-> <<>>, kind |-> "dml",
                  store |-> Store(TRUE, store.rows \cup
                                  {[id |-> Num(U[9]), username |-> "null", gen |-> 0]})]
       ELSE IF Len(Unquoted(query)) = 10 /\ (n - 10) % 2 = 0
                 /\ SubSeq(Unquoted(U), 1, 8) =
                       <<"INSERT", "INTO", "users", "(", "username", ")", "VALUES", "(">>
                 /\ Unquoted(U)[10] = ")"
       THEN IF ~store.tbl THEN SqlErr(store, "OperationalError")
            ELSE [err |-> "", res |-> <<>>, kind |-> "dml",
                  store |-> InsertUser(store, Unquoted(query)[9])]
       ELSE IF n = 8 /\ SubSeq(U, 1, 5) = <<"UPDATE", "users", "SET", "username", "=">>
                     /\ IsQuote(U[6]) /\ IsQuote(U[8])
       THEN IF ~store.tbl THEN SqlErr(store, "OperationalError")
            ELSE [err |-> "", res |-> <<>>, kind |-> "dml",
                  store |-> Store(TRUE, {[r EXCEPT !.username = query[7]] : r \in store.rows})]
       ELSE IF U = <<"DROP", "TABLE", "users">>
       THEN IF ~store.tbl THEN SqlErr(store, "OperationalError")
            ELSE [err |-> "", store |-> Store(FALSE, {}), res |-> <<>>, kind |-> "ddl"]
       ELSE IF U = <<"ALTER", "TABLE", "users", "RENAME", "TO", "u2">>
       THEN IF ~store.tbl THEN SqlErr(store, "OperationalError")
            ELSE [err |-> "", store |-> Store(FALSE, {}), res |-> <<>>, kind |-> "ddl"]
       ELSE SqlErr(store, "OperationalError")

\* cursor.executemany(INSERT .., rows)
SqlInsertMany(store, rows) ==
    IF ~store.tbl THEN SqlErr(store, "OperationalError")
    ELSE IF \E i \in 1..Len(rows) : \E r \in store.rows : r.id = rows[i].id
         THEN SqlErr(store, "IntegrityError")
    ELSE [err |-> "", store |-> Store(TRUE, store.rows \cup Range(rows)),
          res |-> <<>>, kind |-> "dml"]

\* the values bound to the "?" placeholders, in order
RECURSIVE Bind(_, _)
Bind(query, params) ==
    IF query = <<>> THEN <<>>
    ELSE IF Head(query) = "?" /\ params # <<>>
         THEN <<IF Len(Head(params).toks) = 1 THEN Head(params).toks[1] ELSE "<text>">>
              \o Bind(Tail(query), Tail(params))
    ELSE <<Head(query)>> \o Bind(Tail(query), params)

NumPlaceholders(query) == Cardinality({i \in 1..Len(query) : query[i] = "?"})

(***************************************************************************)
(* Connections and cursors.  The world w is [db, logs, query_history,       *)
(* fakeGen]; a connection is [db, dirty, view] (view: its uncommitted       *)
(* state once dirty); a cursor is [res, hp, ran] (res: the pending result   *)
(* set, hp: the wrapper's cached honeypot results, ran: the statements the  *)
(* real cursor executed).                                                   *)
(***************************************************************************)
Connect(name) == [db |-> name, dirty |-> FALSE, view |-> Store(FALSE, {})]
View(w, conn) == IF conn.dirty THEN conn.view ELSE w.db[conn.db]
Commit(w, conn) == IF conn.dirty THEN [w EXCEPT !.db[conn.db] = conn.view] ELSE w
NoHp == [set |-> FALSE, rows |-> <<>>]
NewCursor == [res |-> <<>>, hp |-> NoHp, ran |-> <<>>]

\* held: the databases on which another open connection has an uncommitted
\* write; a write to one of them fails with "database is locked"
Locked(held, conn, x) ==
    IF x.err = "" /\ x.kind \in {"dml", "ddl"} /\ conn.db \in held
    THEN SqlErr(x.store, "OperationalError") ELSE x

Applied(w, conn, cur, x, stmt) ==
    [ w    |-> IF x.err = "" /\ x.kind = "ddl" /\ ~conn.dirty
               THEN [w EXCEPT !.db[conn.db] = x.store] ELSE w,
      conn |-> IF x.err = "" /\ (x.kind = "dml" \/ (x.kind = "ddl" /\ conn.dirty))
               THEN [conn EXCEPT !.dirty = TRUE, !.view = x.store] ELSE conn,
      cur  |-> [cur EXCEPT !.res = x.res, !.ran = Append(@, stmt)],
      err  |-> x.err,
      held |-> {} ]

\* sqlite3.Cursor.execute(query, parameters)
raw_execute(w, held, conn, cur, query, params) ==
    LET x == IF NumPlaceholders(query) # Len(params)
             THEN SqlErr(View(w, conn), "ProgrammingError")
             ELSE SqlExec(View(w, conn), Bind(query, params))
    IN Applied(w, conn, cur, Locked(held, conn, x), <<query, params>>)

\* sqlite3.Cursor.executemany(query, rows)
raw_executemany(w, held, conn, cur, query, rows) ==
    Applied(w, conn, cur, Locked(held, conn, SqlInsertMany(View(w, conn), rows)),
            <<query, rows>>)

(***************************************************************************)
(* database/fake_data_generator.py, core/logger.py                          *)
(***************************************************************************)
NumRecords == 5

generate_users(count, gen) ==
    [i \in 1..count |-> [id |-> i, username |-> "fake", gen |-> gen]]

log_query(w, app_id, ip, operation, query, authorized, reason) ==
    [w EXCEPT !.query_history = Append(@,
        [app_id |-> app_id, ip_address |-> ip, operation |-> operation,
         query |-> query, is_authorized |-> authorized, reason |-> reason,
         status |-> IF authorized THEN "ALLOWED" ELSE "BLOCKED"])]

log_intrusion(w, app_id, ip, operation, query, reason) ==
    [w EXCEPT !.logs = Append(@,
        [app_id |-> app_id, ip_address |-> ip, operation |-> operation,
         query |-> query, reason |-> reason, action |-> "REDIRECTED_TO_HONEYPOT"])]

(***************************************************************************)
(* core/honeypot.py, core/firewall.py and the cursor of                     *)
(* database_protection/transparent_wrapper.py.  While the transparent       *)
(* wrapper is installed sqlite3.connect is the wrapped function for every   *)
(* caller in the process, the orchestrator and the honeypot included, so    *)
(* the operators below call each other.                                     *)
(*   g    : the wrapper's module globals [installed, enabled, fw, app_id,   *)
(*          hour] (hour: the hour of datetime.now())                        *)
(*   d    : how many more nested orchestrator calls fit on the Python stack *)
(*          before RecursionError                                           *)
(*   held : databases locked by connections of enclosing frames             *)
(* A result carries err ("" when the call returned) and, with an error,     *)
(* held: the locks of the connections the traceback keeps alive.            *)
(***************************************************************************)
RecursionLimit == 2
LOCALHOST == Txt(<<"127", "0", "0", "1">>, -1)
Q_DeleteAll == <<"DELETE", "FROM", "users">>
Q_PopulateInsert == <<"INSERT", "INTO", "users", "(", "id", ")", "VALUES", "(", "?", ")">>
WriteOps == {"INSERT", "UPDATE", "DELETE"}
FirstWord(query) == IF query = <<>> THEN "UNKNOWN" ELSE Upper(query[1])
NoWrapper == [installed |-> FALSE, enabled |-> FALSE, fw |-> FALSE, connect |-> "original",
              app_id |-> "unknown_app", hour |-> 0]

Own(conn) == IF conn.dirty THEN {conn.db} ELSE {}

\* the element of a one-element set
The(S) == CHOOSE x \in S : TRUE

RECURSIVE fw_execute_query(_, _, _, _, _, _, _, _, _)
RECURSIVE hp_execute_query(_, _, _, _, _)
RECURSIVE populate_fake_data(_, _, _, _)
RECURSIVE tc_execute(_, _, _, _, _, _, _, _)
RECURSIVE tc_executemany(_, _, _, _, _, _, _, _)
RECURSIVE fw_authorized(_, _, _, _, _, _, _, _)
RECURSIVE fw_denied(_, _, _, _, _, _, _, _, _)

\* TransparentCursor.fetchall / sqlite3.Cursor.fetchall
fetchall(cur) == IF cur.hp.set THEN cur.hp.rows ELSE cur.res

\* sqlite3.connect(..).cursor().execute(..) as the process sees it
cur_execute(w, g, d, held, conn, cur, query, params) ==
    IF g.connect = "wrapped" /\ g.installed THEN tc_execute(w, g, d, held, conn, cur, query, params)
    ELSE raw_execute(w, held, conn, cur, query, params)

cur_executemany(w, g, d, held, conn, cur, query, rows) ==
    IF g.connect = "wrapped" /\ g.installed
    THEN tc_executemany(w, g, d, held, conn, cur, query, rows)
    ELSE raw_executemany(w, held, conn, cur, query, rows)

\* TransparentCursor.execute
tc_execute(w, g, d, held, conn, cur, query, params) ==
    IF ~g.enabled \/ ~g.fw THEN raw_execute(w, held, conn, cur, query, params)
    ELSE IF d = 0
         THEN \* RecursionError in the try block: fall back to direct execution
              raw_execute(w, held, conn, cur, query, params)
    ELSE The({
         IF r.err # ""
         THEN The({ [f EXCEPT !.held = IF f.err = "" THEN {} ELSE r.held] :
                    f \in {raw_execute(r.w, held \cup r.held, conn, cur, query, params)} })
         ELSE IF ~r.auth
         THEN [w |-> r.w, conn |-> conn, err |-> "", held |-> {},
               cur |-> [cur EXCEPT !.hp = [set |-> TRUE, rows |-> r.rows]]]
         ELSE raw_execute(r.w, held, conn, [cur EXCEPT !.hp = NoHp], query, params)
         : r \in {fw_execute_query(w, g, d - 1, held \cup Own(conn), g.app_id, LOCALHOST,
                                   FirstWord(query), query, g.hour)} })

\* TransparentCursor.executemany
tc_executemany(w, g, d, held, conn, cur, query, rows) ==
    IF g.enabled /\ g.fw
    THEN IF d = 0
         THEN [w |-> w, conn |-> conn, cur |-> cur, err |-> "RecursionError", held |-> {}]
         ELSE The({
              IF r.err # ""
              THEN [w |-> r.w, conn |-> conn, cur |-> cur, err |-> r.err, held |-> r.held]
              ELSE IF ~r.auth
              THEN [w |-> r.w, conn |-> conn, cur |-> cur, err |-> "", held |-> {}]
              ELSE raw_executemany(r.w, held, conn, cur, query, rows)
              : r \in {fw_execute_query(w, g, d - 1, held \cup Own(conn), g.app_id,
                                        LOCALHOST, FirstWord(query), query, g.hour)} })
    ELSE raw_executemany(w, held, conn, cur, query, rows)

\* Honeypot.populate_fake_data
populate_fake_data(w, g, d, held) ==
    The({
    IF r1.err # "" THEN [w |-> r1.w, err |-> r1.err, held |-> r1.held]
    ELSE The({
         IF r2.err # ""
         THEN [w |-> r2.w, err |-> r2.err, held |-> r2.held \cup Own(r1.conn)]
         ELSE [w |-> Commit(r2.w, r2.conn), err |-> "", held |-> {}]
         : r2 \in {cur_executemany([r1.w EXCEPT !.fakeGen = @ + 1], g, d, held, r1.conn,
                                   r1.cur, Q_PopulateInsert,
                                   generate_users(NumRecords, r1.w.fakeGen + 1))} })
    : r1 \in {cur_execute(w, g, d, held, Connect("honeypot"), NewCursor, Q_DeleteAll, <<>>)} })

\* Honeypot.execute_query; snap is the honeypot store as populate_fake_data left it
hp_execute_query(w, g, d, held, query) ==
    The({
    IF p.err # ""
    THEN [w |-> p.w, err |-> p.err, held |-> p.held, rows |-> <<>>,
          snap |-> p.w.db["honeypot"]]
    ELSE The({
         IF r.err # ""
         THEN [w |-> r.w, err |-> "", held |-> {}, rows |-> <<>>,
               snap |-> p.w.db["honeypot"]]
         ELSE IF FirstWord(query) = "SELECT"
         THEN [w |-> r.w, err |-> "", held |-> {}, rows |-> fetchall(r.cur),
               snap |-> p.w.db["honeypot"]]
         ELSE [w |-> Commit(r.w, r.conn), err |-> "", held |-> {}, rows |-> <<>>,
               snap |-> p.w.db["honeypot"]]
         : r \in {cur_execute(p.w, g, d, held, Connect("honeypot"), NewCursor, query, <<>>)} })
    : p \in {populate_fake_data(w, g, d, held)} })

\* DatabaseFirewall.execute_query, the branch of an authorized call
fw_authorized(w, g, d, held, app_id, ip, operation, query) ==
    The({
    IF r.err # ""
    THEN [w |-> r.w, err |-> r.err, held |-> r.held, auth |-> TRUE,
          rows |-> <<>>, reason |-> "", path |-> "real", snap |-> r.w.db["honeypot"]]
    ELSE The({
         [w |-> log_query(w2, app_id, ip, operation, query, TRUE, "Access granted"),
          err |-> "", held |-> {}, auth |-> TRUE,
          rows |-> IF Upper(operation) \in WriteOps THEN <<>> ELSE fetchall(r.cur),
          reason |-> "Access granted", path |-> "real", snap |-> w2.db["honeypot"]]
         : w2 \in {IF Upper(operation) \in WriteOps THEN Commit(r.w, r.conn) ELSE r.w} })
    : r \in {cur_execute(w, g, d, held, Connect("real"), NewCursor, query, <<>>)} })

\* DatabaseFirewall.execute_query, the branch of a denied call
fw_denied(w, g, d, held, app_id, ip, operation, query, final_reason) ==
    The({
    IF h.err # ""
    THEN [w |-> h.w, err |-> h.err, held |-> h.held, auth |-> FALSE,
          rows |-> <<>>, reason |-> final_reason, path |-> "honeypot", snap |-> h.snap]
    ELSE [w |-> log_query(h.w, app_id, ip, operation, query, FALSE, final_reason),
          err |-> "", held |-> {}, auth |-> FALSE, rows |-> h.rows,
          reason |-> final_reason, path |-> "honeypot", snap |-> h.snap]
    : h \in {hp_execute_query(log_intrusion(w, app_id, ip, operation, query, final_reason),
                              g, d, held, query)} })

\* DatabaseFirewall.execute_query
fw_execute_query(w, g, d, held, app_id, ip, operation, query, hour) ==
    The({
    IF d2[2][1] /\ ~d2[1][1]
    THEN fw_authorized(w, g, d, held, app_id, ip, operation, query)
    ELSE fw_denied(w, g, d, held, app_id, ip, operation, query,
                   IF d2[1][1] THEN d2[1][2] ELSE d2[2][2])
    : d2 \in {<<detect_sql_injection(query),
                is_authorized(app_id, ip, operation, hour)>>} })

(***************************************************************************)
(* State                                                                    *)
(***************************************************************************)
VARIABLES
    db,             \* the database files: "real", "honeypot", "app"
    logs,           \* SecurityLogger.logs
    query_history,  \* SecurityLogger.query_history
    fakeGen,        \* number of generate_users calls so far
    ncalls,         \* number of calls made so far
    last,           \* what the last call was given, did and returned
    ac,             \* an is_authorized call: its arguments and its result
    g,              \* transparent_wrapper's module globals
    handle,         \* how the application got its connection, and for whom
    conn,           \* the application's sqlite3 connection
    cur,            \* the application's cursor
    net,            \* DatabaseProxyServer: one client connection and its two sockets
    guard,          \* SecureDatabaseGuardian and the connection proxy it handed out
    now,            \* the clock read by datetime.now() and time.time(), in ticks
    threat,         \* ThreatAnalyzer.ip_attempts
    limiter,        \* SecurityMiddleware.rate_limits and the handlers it let run
    adapter,        \* a database adapter and the connection it holds
    validator,      \* QueryValidator.allow_ddl
    thr,            \* the threads inside a denied execute_query call of one orchestrator
    relay,          \* DatabaseProxyServer.handle_client: its two relay threads and sockets
    authorized_schedule  \* main.py's DatabaseFirewall.authorized_schedule

vars == <<db, logs, query_history, fakeGen, ncalls, last, ac, g, handle, conn, cur, net, guard,
         now, threat, limiter, adapter, validator, thr, relay, authorized_schedule>>
appVars == <<g, handle, conn, cur>>
compVars == <<net, guard, now, threat, limiter, adapter, validator, thr, relay,
        authorized_schedule>>
exceptNet == <<guard, now, threat, limiter, adapter, validator, thr, relay,
        authorized_schedule>>
exceptGuard == <<net, now, threat, limiter, adapter, validator, thr, relay,
        authorized_schedule>>
exceptThreat == <<net, guard, limiter, adapter, validator, thr, relay,
        authorized_schedule>>
exceptLimiter == <<net, guard, threat, adapter, validator, thr, relay,
        authorized_schedule>>
exceptAdapter == <<net, guard, now, threat, limiter, validator, thr, relay,
        authorized_schedule>>
exceptValidator == <<net, guard, now, threat, limiter, adapter, thr, relay,
        authorized_schedule>>
exceptThr == <<net, guard, now, threat, limiter, adapter, validator, relay,
        authorized_schedule>>
exceptRelay == <<net, guard, now, threat, limiter, adapter, validator, thr,
        authorized_schedule>>
exceptSchedule == <<net, guard, now, threat, limiter, adapter, validator, thr, relay>>

World == [db |-> db, logs |-> logs, query_history |-> query_history, fakeGen |-> fakeGen]

SeedRows == { [id |-> 1, username |-> "admin", gen |-> 0],
              [id |-> 2, username |-> "john_doe", gen |-> 0] }
StaleRow == [id |-> 7, username |-> "null", gen |-> 0]

\* _init_real_database without its DELETE FROM users
_init_real_database_keeping_rows(store) ==
    LET created == IF store.tbl THEN store ELSE Store(TRUE, {})
    IN InsertUser(InsertUser(created, "admin"), "john_doe")

\* DatabaseFirewall._init_real_database: CREATE TABLE IF NOT EXISTS, DELETE,
\* executemany INSERT of the two seeded users, commit
_init_real_database(store) ==
    LET created == IF store.tbl THEN store ELSE Store(TRUE, {})
        emptied == SqlExec(created, <<"DELETE", "FROM", "users">>).store
    IN InsertUser(InsertUser(emptied, "admin"), "john_doe")

\* DatabaseFirewall.__init__ on the stores as an earlier process left them
Constructed(old) ==
    [ real     |-> _init_real_database(old["real"]),
      honeypot |-> Store(TRUE, old["honeypot"].rows),
      app      |-> old["app"] ]

(***************************************************************************)
(* Inputs                                                                   *)
(***************************************************************************)
Q_SelectAll == <<"SELECT", "*", "FROM", "users">>
Q_Inj       == <<"SELECT", "*", "FROM", "users", "WHERE", "id", "=", "1",
                 "OR", "'", "1", "'", "=", "'", "1", "'">>
Q_Delete1   == <<"DELETE", "FROM", "users", "WHERE", "id", "=", "1">>
Q_Insert9   == <<"INSERT", "INTO", "users", "(", "id", ")", "VALUES", "(", "9", ")">>
Q_Update    == <<"UPDATE", "users", "SET", "username", "=", "'", "x", "'">>
Q_Drop      == <<"DROP", "TABLE", "users">>
Q_Alter     == <<"ALTER", "TABLE", "users", "RENAME", "TO", "u2">>
Q_NoSuch    == <<"SELECT", "*", "FROM", "nosuch">>

IP_Admin   == Txt(<<"192", "168", "1", "100">>, -1)
IP_Lan     == Txt(<<"192", "168", "1", "50">>, -1)
IP_Backup  == Txt(<<"10", "0", "0", "5">>, -1)
IP_Other   == Txt(<<"10", "0", "0", "99">>, -1)
IP_Loop6   == Txt(<<"0:0:0:0:0:0:0:1">>, -1)
IP_Bad     == Txt(<<"not-an-ip">>, -1)

Req(a, i, o, q, h) == [app_id |-> a, ip |-> i, operation |-> o, query |-> q, hour |-> h]

Requests ==
    { Req("admin_panel", IP_Admin, "SELECT", Q_SelectAll, 10),
      Req("admin_panel", IP_Other, "SELECT", Q_SelectAll, 10),
      Req("admin_panel", IP_Admin, "SELECT", Q_Inj, 10),
      Req("admin_panel", IP_Admin, "DELETE", Q_Delete1, 10),
      Req("backup_service", IP_Backup, "delete", Q_Delete1, 3),
      Req("webapp_frontend", IP_Lan, "SELECT", Q_SelectAll, 2),
      Req("unknown_app", IP_Other, "SELECT", Q_SelectAll, 10),
      Req("unknown_app", IP_Other, "SELECT", Q_Drop, 10),
      Req("unknown_app", IP_Other, "INSERT", Q_Insert9, 10),
      Req("admin_panel", IP_Admin, "INSERT", Q_Insert9, 10),
      Req("admin_panel", IP_Admin, "update", Q_Update, 10),
      Req("admin_panel", IP_Admin, "SELECT", Q_NoSuch, 10),
      Req("admin_panel", IP_Admin, "SELECT", Q_Alter, 10),
      Req("fastapi_app", IP_Other, "SELECT", Q_SelectAll, 10) }

(***************************************************************************)
(* The orchestrator used directly (test_system.py, main.py demo)            *)
(***************************************************************************)
NoCall == [kind |-> "none"]
NoHandle == [kind |-> "none", app_id |-> "", ip |-> LOCALHOST, lastExec |-> "none"]
NoNet == [open |-> FALSE, relaying |-> FALSE, ip |-> LOCALHOST,
          to_server |-> <<>>, to_client |-> <<>>]
DefaultPermissions ==
    [read |-> TRUE, write |-> TRUE, create |-> FALSE, drop |-> FALSE, alter |-> FALSE]
\* SecureDatabaseGuardian.__init__, and no connection handed out yet
NoGuard ==
    [permissions |-> [a \in {"default"} |-> DefaultPermissions],
     access_logs |-> <<>>,
     proxy |-> [exists |-> FALSE, app_id |-> "unknown", ip |-> LOCALHOST, closed |-> FALSE],
     real |-> [open |-> FALSE, calls |-> <<>>]]
\* ThreatAnalyzer.__init__
NoThreat == [ip_attempts |-> <<>>]
\* SecurityMiddleware.__init__, and no decorated handler called yet
NoLimiter == [rate_limits |-> <<>>, handled |-> <<>>]
\* BaseDatabaseAdapter.__init__
NoAdapter == [engine |-> "none", connection |-> <<>>]
\* no thread is inside a call
Threads == {1, 2}
NoThreads == [t \in Threads |-> [pc |-> "idle"]]
\* no client has connected to the proxy
NoRelay ==
    [handler |-> "none", client_to_server |-> "none", server_to_client |-> "none",
     client_socket |-> "none", target_socket |-> "none",
     client_peer |-> "open", server_peer |-> "open",
     from_client |-> <<>>, from_server |-> <<>>, ip |-> LOCALHOST]
NoComp ==
    /\ net = NoNet
    /\ guard = NoGuard
    /\ now = 0
    /\ threat = NoThreat
    /\ limiter = NoLimiter
    /\ adapter = NoAdapter
    /\ validator = [allow_ddl |-> FALSE]
    /\ thr = NoThreads
    /\ relay = NoRelay
    /\ authorized_schedule = <<>>
NoApp ==
    /\ NoComp
    /\ g = NoWrapper
    /\ handle = NoHandle
    /\ conn = Connect("app")
    /\ cur = NewCursor

Init ==
    /\ db \in { Constructed([real |-> Store(FALSE, {}), honeypot |-> Store(FALSE, stale),
                             app |-> Store(TRUE, SeedRows)]) : stale \in {{}, {StaleRow}} }
    /\ logs = <<>>
    /\ query_history = <<>>
    /\ fakeGen = 0
    /\ ncalls = 0
    /\ last = NoCall
    /\ ac = NoCall
    /\ NoApp

\* firewall = DatabaseFirewall()
Construct ==
    /\ db' = Constructed(db)
    /\ logs' = <<>>
    /\ query_history' = <<>>
    /\ last' = [kind |-> "construct", db0 |-> db]
    /\ UNCHANGED <<fakeGen, ncalls, ac, appVars, compVars>>

\* firewall.execute_query(app_id, ip_address, operation, query, simulate_time)
ExecuteQuery ==
    /\ ncalls < MaxCalls
    /\ \E rq \in Requests :
          \E r \in {fw_execute_query(World, NoWrapper, 0, {}, rq.app_id, rq.ip,
                                     rq.operation, rq.query, rq.hour)} :
             /\ db' = r.w.db
             /\ logs' = r.w.logs
             /\ query_history' = r.w.query_history
             /\ fakeGen' = r.w.fakeGen
             /\ last' = [kind |-> "execute_query", req |-> rq,
                         raised |-> r.err # "", err |-> r.err,
                         authorized |-> r.auth, rows |-> r.rows, reason |-> r.reason,
                         path |-> r.path, snap |-> r.snap,
                         allowed |-> is_authorized(rq.app_id, rq.ip, rq.operation, rq.hour),
                         flagged |-> detect_sql_injection(rq.query)[1],
                         db0 |-> db, gen0 |-> fakeGen,
                         nlogs0 |-> Len(logs), nhist0 |-> Len(query_history)]
    /\ ncalls' = ncalls + 1
    /\ UNCHANGED <<ac, appVars, compVars>>

Next == Construct \/ ExecuteQuery

Spec == Init /\ [][Next]_vars

(***************************************************************************)
(* AccessControl.is_authorized as a function of its arguments               *)
(***************************************************************************)
IP_Loop4 == LOCALHOST
IP_Loop6c == Txt(<<"::1">>, -1)
IP_Zero  == Txt(<<"010", "0", "0", "5">>, -1)

ACApps  == AppIds \cup {"unknown_app"}
ACIps   == {IP_Admin, IP_Lan, IP_Backup, IP_Other, IP_Loop4, IP_Loop6, IP_Loop6c, IP_Bad, IP_Zero}
ACOps   == {"SELECT", "select", "INSERT", "UPDATE", "DELETE", "delete", "CREATE", "DROP"}
Hours   == 0..23

InitAC ==
    /\ db = Constructed([real |-> Store(FALSE, {}), honeypot |-> Store(FALSE, {}),
                         app |-> Store(TRUE, SeedRows)])
    /\ logs = <<>>
    /\ query_history = <<>>
    /\ fakeGen = 0
    /\ ncalls = 0
    /\ last = NoCall
    /\ NoApp
    /\ ac \in { [kind |-> "args", app_id |-> a, ip |-> i, operation |-> o, hour |-> h,
                 out |-> <<FALSE, "">>] : a \in ACApps, i \in ACIps, o \in ACOps, h \in Hours }

\* access_control.is_authorized(app_id, ip_address, operation, current_time)
IsAuthorized ==
    /\ ac.kind = "args"
    /\ ac' = [ac EXCEPT !.kind = "is_authorized",
                        !.out = is_authorized(ac.app_id, ac.ip, ac.operation, ac.hour)]
    /\ UNCHANGED <<db, logs, query_history, fakeGen, ncalls, last, appVars, compVars>>

NextAC == IsAuthorized

SpecAC == InitAC /\ [][NextAC]_vars

(***************************************************************************)
(* database_protection/secure_db_wrapper.py: SecureDatabaseWrapper.connect  *)
(* and the SecureCursor it hands out.  A parameter is [str, toks]: whether  *)
(* it is a Python str, and its text.                                        *)
(***************************************************************************)
Param(isStr, toks) == [str |-> isStr, toks |-> toks]

\* str.replace('?', val, 1)
ReplaceFirst(full, val) ==
    LET I == {i \in 1..Len(full) : full[i] = "?"}
    IN IF I = {} THEN full
       ELSE LET i == CHOOSE k \in I : \A j \in I : k <= j
            IN SubSeq(full, 1, i - 1) \o val \o SubSeq(full, i + 1, Len(full))

RECURSIVE full_query(_, _)
\* the text SecureCursor.execute hands to the orchestrator
full_query(query, parameters) ==
    IF parameters = <<>> THEN query
    ELSE LET param == Head(parameters)
         IN full_query(ReplaceFirst(query, IF param.str
                                           THEN <<"'">> \o param.toks \o <<"'">>
                                           ELSE param.toks),
                       Tail(parameters))

\* SecureCursor.execute that leaves the wrapped cursor alone once the
\* orchestrator has run the statement
sc_execute_orchestrator_only(w, gl, h, cn, c, query, parameters, hour) ==
    The({
    IF r.err # ""
    THEN [w |-> r.w, conn |-> cn, cur |-> c, err |-> r.err, fw |-> "raised"]
    ELSE IF r.auth
    THEN [w |-> r.w, conn |-> cn, err |-> "", fw |-> "authorized",
          cur |-> [c EXCEPT !.hp = NoHp, !.res = r.rows]]
    ELSE [w |-> r.w, conn |-> cn, err |-> "OperationalError", fw |-> "denied",
          cur |-> [c EXCEPT !.hp = [set |-> TRUE, rows |-> r.rows]]]
    : r \in {fw_execute_query(w, gl, RecursionLimit, Own(cn), h.app_id, h.ip,
                              FirstWord(query), full_query(query, parameters), hour)} })

\* SecureCursor.execute; fw tells how the orchestrator's call ended
sc_execute(w, gl, h, cn, c, query, parameters, hour) ==
    The({
    IF r.err # ""
    THEN [w |-> r.w, conn |-> cn, cur |-> c, err |-> r.err, fw |-> "raised"]
    ELSE IF r.auth
    THEN The({ [w |-> x.w, conn |-> x.conn, err |-> x.err, fw |-> "authorized",
                cur |-> IF x.err = "" THEN [x.cur EXCEPT !.hp = NoHp] ELSE x.cur]
               : x \in {raw_execute(r.w, {}, cn, c, query, parameters)} })
    ELSE [w |-> r.w, conn |-> cn, err |-> "OperationalError", fw |-> "denied",
          cur |-> [c EXCEPT !.hp = [set |-> TRUE, rows |-> r.rows]]]
    : r \in {fw_execute_query(w, gl, RecursionLimit, Own(cn), h.app_id, h.ip,
                              FirstWord(query), full_query(query, parameters), hour)} })

\* SecureCursor.fetchone / fetchall / fetchmany: what is returned (fetchone:
\* a sequence of one row, or <<>> for None) and the cursor afterwards
Take(rows, n) == SubSeq(rows, 1, IF n < Len(rows) THEN n ELSE Len(rows))
Drop(rows, n) == SubSeq(rows, (IF n < Len(rows) THEN n ELSE Len(rows)) + 1, Len(rows))

sc_fetchone(c) ==
    IF c.hp.set THEN [out |-> Take(c.hp.rows, 1), cur |-> c]
    ELSE [out |-> Take(c.res, 1), cur |-> [c EXCEPT !.res = Drop(@, 1)]]

sc_fetchall(c) ==
    IF c.hp.set THEN [out |-> c.hp.rows, cur |-> c]
    ELSE [out |-> c.res, cur |-> [c EXCEPT !.res = <<>>]]

sc_fetchmany(c, size) ==
    IF c.hp.set THEN [out |-> Take(c.hp.rows, size), cur |-> c]
    ELSE [out |-> Take(c.res, size), cur |-> [c EXCEPT !.res = Drop(@, size)]]

Q_ByName    == <<"SELECT", "*", "FROM", "users", "WHERE", "username", "=", "?">>
Q_InsertP   == <<"INSERT", "INTO", "users", "(", "id", ")", "VALUES", "(", "?", ")">>
Q_InsertName == <<"INSERT", "INTO", "users", "(", "username", ")", "VALUES", "(", "?", ")">>
P_Admin     == Param(TRUE, <<"admin">>)
P_Quote     == Param(TRUE, <<"x", "'", "OR", "'", "1", "'", "=", "'", "1">>)
P_Nine      == Param(FALSE, <<"9">>)

SCCalls ==
    { <<Q_SelectAll, <<>>>>, <<Q_ByName, <<P_Admin>>>>, <<Q_ByName, <<P_Quote>>>>,
      <<Q_Inj, <<>>>>, <<Q_InsertP, <<P_Nine>>>>, <<Q_SelectAll, <<P_Nine>>>>,
      <<Q_Drop, <<>>>> }
SCIdents == { <<"admin_panel", IP_Admin>>, <<"shop_api", LOCALHOST>>,
              <<"unknown_app", LOCALHOST>> }
NowHours == {10, 23}
AppRow9 == [id |-> 9, username |-> "null", gen |-> 0]

InitSC ==
    /\ db \in { Constructed([real |-> Store(FALSE, {}), honeypot |-> Store(FALSE, {}),
                             app |-> Store(TRUE, rows)]) :
                rows \in {SeedRows, SeedRows \cup {AppRow9}} }
    /\ logs = <<>>
    /\ query_history = <<>>
    /\ fakeGen = 0
    /\ ncalls = 0
    /\ last = NoCall
    /\ ac = NoCall
    /\ NoApp

\* conn = secure_db.connect(database, app_id, ip_address); cursor = conn.cursor()
SCConnect ==
    /\ handle.kind = "none"
    /\ \E id \in SCIdents, name \in {"app", "real"} :
          /\ handle' = [kind |-> "secure", app_id |-> id[1], ip |-> id[2],
                        lastExec |-> "none"]
          /\ conn' = Connect(name)
    /\ cur' = NewCursor
    /\ last' = [kind |-> "connect"]
    /\ UNCHANGED <<db, logs, query_history, fakeGen, ncalls, ac, g, compVars>>

\* cursor = conn.cursor()
SCCursor ==
    /\ handle.kind = "secure"
    /\ cur # NewCursor
    /\ cur' = NewCursor
    /\ handle' = [handle EXCEPT !.lastExec = "none"]
    /\ last' = [kind |-> "cursor"]
    /\ UNCHANGED <<db, logs, query_history, fakeGen, ncalls, ac, g, conn, compVars>>

\* cursor.execute(query, parameters), the call drawn from calls
SCExecuteOf(calls) ==
    /\ handle.kind = "secure"
    /\ ncalls < MaxExecutes
    /\ \E call \in calls, hour \in NowHours :
          \E r \in {sc_execute(World, g, handle, conn, cur, call[1], call[2], hour)} :
             /\ db' = r.w.db
             /\ logs' = r.w.logs
             /\ query_history' = r.w.query_history
             /\ fakeGen' = r.w.fakeGen
             /\ conn' = r.conn
             /\ cur' = r.cur
             /\ handle' = [handle EXCEPT !.lastExec = r.fw]
             /\ last' = [kind |-> "sc_execute", query |-> call[1], params |-> call[2],
                         raised |-> r.err # "", err |-> r.err, fw |-> r.fw,
                         cur0 |-> cur, conn0 |-> conn, db0 |-> db,
                         nhist0 |-> Len(query_history)]
    /\ ncalls' = ncalls + 1
    /\ UNCHANGED <<ac, g, compVars>>

SCExecute == SCExecuteOf(SCCalls)

\* cursor.fetchone()
SCFetchone ==
    /\ handle.kind = "secure"
    /\ cur' = sc_fetchone(cur).cur
    /\ last' = [kind |-> "sc_fetchone", out |-> sc_fetchone(cur).out, cur0 |-> cur]
    /\ UNCHANGED <<db, logs, query_history, fakeGen, ncalls, ac, g, handle, conn, compVars>>

\* cursor.fetchall()
SCFetchall ==
    /\ handle.kind = "secure"
    /\ cur' = sc_fetchall(cur).cur
    /\ last' = [kind |-> "sc_fetchall", out |-> sc_fetchall(cur).out, cur0 |-> cur]
    /\ UNCHANGED <<db, logs, query_history, fakeGen, ncalls, ac, g, handle, conn, compVars>>

\* cursor.fetchmany(size)
SCFetchmany ==
    /\ handle.kind = "secure"
    /\ \E size \in 1..2 :
          /\ cur' = sc_fetchmany(cur, size).cur
          /\ last' = [kind |-> "sc_fetchmany", out |-> sc_fetchmany(cur, size).out,
                      cur0 |-> cur, size |-> size]
    /\ UNCHANGED <<db, logs, query_history, fakeGen, ncalls, ac, g, handle, conn, compVars>>

\* conn.commit()
SCCommit ==
    /\ handle.kind = "secure"
    /\ conn.dirty
    /\ db' = Commit(World, conn).db
    /\ conn' = Connect(conn.db)
    /\ last' = [kind |-> "commit"]
    /\ UNCHANGED <<logs, query_history, fakeGen, ncalls, ac, g, handle, cur, compVars>>

NextSC == SCConnect \/ SCCursor \/ SCExecute \/ SCFetchone \/ SCFetchall \/ SCFetchmany
             \/ SCCommit

SpecSC == InitSC /\ [][NextSC]_vars

\* the same application writing through its SecureCursor
SICalls ==
    { <<Q_InsertName, <<P_Admin>>>>, <<Q_InsertP, <<P_Nine>>>>, <<Q_SelectAll, <<>>>>,
      <<Q_ByName, <<P_Admin>>>>, <<Q_NoSuch, <<>>>>, <<Q_Inj, <<>>>> }

SIExecute == SCExecuteOf(SICalls)

NextSI == SCConnect \/ SCCursor \/ SIExecute \/ SCFetchall \/ SCCommit

SpecSI == InitSC /\ [][NextSI]_vars

(***************************************************************************)
(* database_protection/transparent_wrapper.py: the module-level switches    *)
(* and an application that uses sqlite3 as if nothing were installed.       *)
(***************************************************************************)
TWApps == {"unknown_app", "shop_api"}
TWCalls ==
    { <<Q_SelectAll, <<>>>>, <<Q_Inj, <<>>>>, <<Q_ByName, <<P_Admin>>>>,
      <<Q_InsertP, <<P_Nine>>>>, <<Q_Drop, <<>>>> }

InitTW ==
    /\ db = Constructed([real |-> Store(FALSE, {}), honeypot |-> Store(FALSE, {}),
                         app |-> Store(TRUE, SeedRows)])
    /\ logs = <<>>
    /\ query_history = <<>>
    /\ fakeGen = 0
    /\ ncalls = 0
    /\ last = NoCall
    /\ ac = NoCall
    /\ g \in {[NoWrapper EXCEPT !.hour = h] : h \in NowHours}
    /\ NoComp
    /\ handle = NoHandle
    /\ conn = Connect("app")
    /\ cur = NewCursor

\* is_protection_enabled()
is_protection_enabled_flag_only(gl) == gl.enabled

is_protection_enabled(gl) == gl.enabled /\ gl.installed

\* install_transparent_wrapper(firewall, app_id)
install_transparent_wrapper ==
    /\ \E a \in TWApps :
          g' = [g EXCEPT !.fw = TRUE, !.app_id = a, !.installed = TRUE, !.enabled = TRUE,
                         !.connect = "wrapped"]
    /\ UNCHANGED <<db, logs, query_history, fakeGen, ncalls, last, ac, handle, conn, cur, compVars>>

\* uninstall_transparent_wrapper()
uninstall_transparent_wrapper ==
    /\ g' = [g EXCEPT !.installed = FALSE, !.enabled = FALSE, !.connect = "original"]
    /\ UNCHANGED <<db, logs, query_history, fakeGen, ncalls, last, ac, handle, conn, cur, compVars>>

\* enable_protection()
enable_protection ==
    /\ g' = [g EXCEPT !.enabled = TRUE]
    /\ UNCHANGED <<db, logs, query_history, fakeGen, ncalls, last, ac, handle, conn, cur, compVars>>

\* disable_protection()
disable_protection ==
    /\ g' = [g EXCEPT !.enabled = FALSE]
    /\ UNCHANGED <<db, logs, query_history, fakeGen, ncalls, last, ac, handle, conn, cur, compVars>>

\* set_app_id(app_id)
set_app_id ==
    /\ \E a \in TWApps : g' = [g EXCEPT !.app_id = a]
    /\ UNCHANGED <<db, logs, query_history, fakeGen, ncalls, last, ac, handle, conn, cur, compVars>>

\* conn = sqlite3.connect(database); cursor = conn.cursor()
wrapped_connect ==
    /\ handle' = [NoHandle EXCEPT !.kind = IF g.connect = "wrapped" /\ g.installed
                                             THEN "transparent" ELSE "plain"]
    /\ \E name \in {"app", "real"} : conn' = Connect(name)
    /\ cur' = NewCursor
    /\ last' = [kind |-> "connect"]
    /\ UNCHANGED <<db, logs, query_history, fakeGen, ncalls, ac, g, compVars>>

\* cursor.execute(query, parameters)
TWExecute ==
    /\ handle.kind \in {"transparent", "plain"}
    /\ ncalls < MaxExecutes
    /\ \E call \in TWCalls :
          \E r \in {IF handle.kind = "transparent"
                    THEN tc_execute(World, g, RecursionLimit, {}, conn, cur, call[1], call[2])
                    ELSE raw_execute(World, {}, conn, cur, call[1], call[2])} :
             /\ db' = r.w.db
             /\ logs' = r.w.logs
             /\ query_history' = r.w.query_history
             /\ fakeGen' = r.w.fakeGen
             /\ conn' = r.conn
             /\ cur' = r.cur
             /\ last' = [kind |-> "tc_execute", query |-> call[1], params |-> call[2],
                         raised |-> r.err # "", err |-> r.err, cur0 |-> cur,
                         wrapped |-> handle.kind = "transparent",
                         protected |-> is_protection_enabled(g),
                         allowed |-> is_authorized(g.app_id, LOCALHOST, FirstWord(call[1]),
                                                   g.hour)[1],
                         flagged |-> detect_sql_injection(call[1])[1]]
    /\ ncalls' = ncalls + 1
    /\ UNCHANGED <<ac, g, handle, compVars>>

\* cursor.fetchall()
TWFetchall ==
    /\ handle.kind \in {"transparent", "plain"}
    /\ last.kind = "tc_execute"
    /\ cur' = IF cur.hp.set THEN cur ELSE [cur EXCEPT !.res = <<>>]
    /\ last' = [last EXCEPT !.kind = "tc_fetchall"] @@ [out |-> fetchall(cur), res |-> cur.res]
    /\ UNCHANGED <<db, logs, query_history, fakeGen, ncalls, ac, g, handle, conn, compVars>>

\* conn.commit()
TWCommit ==
    /\ handle.kind \in {"transparent", "plain"}
    /\ conn.dirty
    /\ db' = Commit(World, conn).db
    /\ conn' = Connect(conn.db)
    /\ last' = [kind |-> "commit"]
    /\ UNCHANGED <<logs, query_history, fakeGen, ncalls, ac, g, handle, cur, compVars>>

NextTW == install_transparent_wrapper \/ uninstall_transparent_wrapper
             \/ enable_protection \/ disable_protection \/ set_app_id
             \/ wrapped_connect \/ TWExecute \/ TWFetchall \/ TWCommit

SpecTW == InitTW /\ [][NextTW]_vars

(***************************************************************************)
(* security/db_proxy.py: the scoring-based interceptor.  The handle of a    *)
(* WrappedCursor is [kind, honeypot_conn, honeypot_cursor, active]:         *)
(* honeypot_conn and honeypot_cursor are <<>> for None or a one-element     *)
(* sequence; active is <<>> while self._cur is the real cursor and          *)
(* <<c>> once self._cur has been replaced by the honeypot cursor c.         *)
(***************************************************************************)
Threshold == 6

NewWrapped == [kind |-> "scoring", honeypot_conn |-> <<>>, honeypot_cursor |-> <<>>,
               active |-> <<>>]

\* self._cur.execute(query[, params]) on whatever cursor self._cur is
wc_active_execute(w, h, cn, c, query, params) ==
    IF h.active = <<>>
    THEN The({ [w |-> x.w, conn |-> x.conn, cur |-> x.cur, h |-> h, err |-> x.err,
                target |-> "real"]
               : x \in {raw_execute(w, {}, cn, c, query, params)} })
    ELSE The({ [w |-> x.w, conn |-> cn, cur |-> c, err |-> x.err, target |-> "honeypot",
                h |-> [h EXCEPT !.honeypot_conn = <<x.conn>>, !.active = <<x.cur>>,
                                !.honeypot_cursor =
                                    IF @ = h.active THEN <<x.cur>> ELSE @]]
               : x \in {raw_execute(w, {}, h.honeypot_conn[1], h.active[1], query, params)} })

\* WrappedCursor.execute; failed tells that the honeypot execution raised
wc_execute(w, h, cn, c, query, params) ==
    IF score_sql_risk(query) >= Threshold
    THEN The({
         IF x.err = ""
         THEN [w |-> x.w, conn |-> cn, cur |-> c, err |-> "", target |-> "honeypot",
               failed |-> FALSE,
               h |-> [h EXCEPT !.honeypot_conn = <<x.conn>>, !.honeypot_cursor = <<x.cur>>,
                               !.active = <<x.cur>>]]
         ELSE wc_active_execute(x.w, [h EXCEPT !.honeypot_conn = <<x.conn>>,
                                               !.honeypot_cursor = <<x.cur>>],
                                cn, c, query, params) @@ [failed |-> TRUE]
         : x \in {raw_execute(w, {}, IF h.honeypot_conn = <<>> THEN Connect("honeypot")
                                     ELSE h.honeypot_conn[1],
                              NewCursor, query, params)} })
    ELSE wc_active_execute(w, h, cn, c, query, params) @@ [failed |-> FALSE]

\* WrappedCursor.fetchall
wc_fetchall(h, c) == IF h.active = <<>> THEN c.res ELSE h.active[1].res

WCCalls ==
    { <<Q_SelectAll, <<>>>>, <<Q_Inj, <<>>>>, <<Q_Insert9, <<>>>>,
      <<Q_ByName, <<P_Admin>>>>,
      <<<<"SELECT", "*", "FROM", "users", ";">>, <<>>>>,
      <<<<"SELECT", "*", "FROM", "users", "WHERE", "id", "=", "CAST(", "1">>, <<>>>>,
      <<<<"SELECT", "*", "FROM", "users", "UNION", "SELECT", "*", "FROM", "users">>, <<>>>> }

FakeRows(gen) == {[id |-> i, username |-> "fake", gen |-> gen] : i \in 1..NumRecords}

InitWC ==
    /\ db \in { [real |-> Store(TRUE, SeedRows), honeypot |-> hp,
                 app |-> Store(TRUE, SeedRows)] :
                hp \in {Store(TRUE, FakeRows(1)), Store(TRUE, {}), Store(FALSE, {})} }
    /\ logs = <<>>
    /\ query_history = <<>>
    /\ fakeGen = 0
    /\ ncalls = 0
    /\ last = NoCall
    /\ ac = NoCall
    /\ NoApp

\* conn = WrappedConnection(real_conn); cursor = conn.cursor()
WCConnect ==
    /\ handle.kind = "none"
    /\ handle' = NewWrapped
    /\ \E name \in {"app", "real"} : conn' = Connect(name)
    /\ cur' = NewCursor
    /\ last' = [kind |-> "connect"]
    /\ UNCHANGED <<db, logs, query_history, fakeGen, ncalls, ac, g, compVars>>

\* cursor.execute(query, params)
WCExecute ==
    /\ handle.kind = "scoring"
    /\ ncalls < MaxCalls
    /\ \E call \in WCCalls :
          \E r \in {wc_execute(World, handle, conn, cur, call[1], call[2])} :
             /\ db' = r.w.db
             /\ conn' = r.conn
             /\ cur' = r.cur
             /\ handle' = r.h
             /\ last' = [kind |-> "wc_execute", query |-> call[1], params |-> call[2],
                         raised |-> r.err # "", err |-> r.err, target |-> r.target,
                         failed |-> r.failed, score |-> score_sql_risk(call[1]),
                         cur0 |-> cur]
    /\ ncalls' = ncalls + 1
    /\ UNCHANGED <<logs, query_history, fakeGen, ac, g, compVars>>

\* cursor.fetchall()
WCFetchall ==
    /\ handle.kind = "scoring"
    /\ last.kind = "wc_execute"
    /\ last' = [last EXCEPT !.kind = "wc_fetchall"] @@ [out |-> wc_fetchall(handle, cur)]
    /\ IF handle.active = <<>>
       THEN cur' = [cur EXCEPT !.res = <<>>] /\ handle' = handle
       ELSE /\ cur' = cur
            /\ handle' = [handle EXCEPT
                            !.active = <<[@[1] EXCEPT !.res = <<>>]>>,
                            !.honeypot_cursor = IF @ = handle.active
                                                THEN <<[@[1] EXCEPT !.res = <<>>]>> ELSE @]
    /\ UNCHANGED <<db, logs, query_history, fakeGen, ncalls, ac, g, conn, compVars>>

\* conn.commit(): the real connection only
WCCommit ==
    /\ handle.kind = "scoring"
    /\ conn.dirty
    /\ db' = Commit(World, conn).db
    /\ conn' = Connect(conn.db)
    /\ last' = [kind |-> "commit"]
    /\ UNCHANGED <<logs, query_history, fakeGen, ncalls, ac, g, handle, cur, compVars>>

NextWC == WCConnect \/ WCExecute \/ WCFetchall \/ WCCommit

SpecWC == InitWC /\ [][NextWC]_vars

\* the module-level switches alone, with an application connecting in between
NextSW == install_transparent_wrapper \/ uninstall_transparent_wrapper
             \/ enable_protection \/ disable_protection \/ set_app_id
             \/ wrapped_connect

SpecSW == InitTW /\ [][NextSW]_vars

(***************************************************************************)
(* database_protection/proxy_server.py: the network proxy.  A chunk read   *)
(* from a socket is a PostgreSQL frontend message: its tag byte, whether   *)
(* it is shorter than five bytes, whether its four length bytes hold a NUL *)
(* in the second position (every length below 65536 does), the statement   *)
(* name of a Parse message and the statement text, as tokens with blanks   *)
(* kept.  A frame written by the proxy is a tag, a length field and a      *)
(* payload; lengths are counted in tokens.                                 *)
(***************************************************************************)
Chunk(tag, short, nul_in_len, name, query) ==
    [tag |-> tag, short |-> short, nul_in_len |-> nul_in_len, name |-> name, query |-> query]

RECURSIVE lstrip(_)
lstrip(q) == IF q # <<>> /\ q[1] = " " THEN lstrip(Tail(q)) ELSE q
RECURSIVE rstrip(_)
rstrip(q) == IF q # <<>> /\ q[Len(q)] = " " THEN rstrip(SubSeq(q, 1, Len(q) - 1)) ELSE q
strip(q) == rstrip(lstrip(q))

\* the length bytes of a frame of 65536 bytes or more, after the leading NUL
LenBytes == "\\x01\\x11p"

\* DatabaseProxyServer.extract_postgresql_query; <<>> stands for None and for ''
extract_postgresql_query(data) ==
    IF data.short THEN <<>>
    ELSE IF data.tag = "Q" THEN strip(data.query)
    ELSE IF data.tag = "P"
         THEN \* parts = data[1:].split(NUL); parts[1] is what lies between the
              \* first NUL, which is the first length byte, and the next one:
              \* nothing, or the other length bytes followed by the name
              IF data.nul_in_len THEN <<>> ELSE strip(<<LenBytes>> \o data.name)
    ELSE <<>>

\* DatabaseProxyServer.detect_operation
detect_operation(query) ==
    IF query # <<>> /\ Upper(query[1]) \in
          {"SELECT", "INSERT", "UPDATE", "DELETE", "CREATE", "DROP", "ALTER"}
    THEN Upper(query[1]) ELSE "SELECT"

\* f"proxy_{client_address[0]}"
ProxyAppId(ip) ==
    IF ip = LOCALHOST THEN "proxy_127.0.0.1"
    ELSE IF ip = IP_Admin THEN "proxy_192.168.1.100"
    ELSE "proxy_10.0.0.99"

\* the bytes DatabaseProxyServer.send_error_response writes
ErrorFrame(error_message) ==
    LET error_bytes == <<"ERROR: Security policy violation: ", error_message, "\\x00">>
    IN [tag |-> "E", length |-> Len(error_bytes) + 4, payload |-> error_bytes]

\* DatabaseProxyServer.send_error_response(client_socket, error_message): the
\* socket it is given receives the frame
send_error_response(n, socket, error_message) ==
    IF socket = "target"
    THEN [n EXCEPT !.to_server = Append(@, ErrorFrame(error_message))]
    ELSE [n EXCEPT !.to_client = Append(@, ErrorFrame(error_message))]

\* destination.sendall(data)
sendall(n, socket, data) ==
    IF socket = "target"
    THEN [n EXCEPT !.to_server = Append(@, data)]
    ELSE [n EXCEPT !.to_client = Append(@, data)]

Q_Padded == <<" ", "SELECT", "*", "FROM", "users", " ">>
PXChunks ==
    {Chunk("Q", FALSE, TRUE, <<>>, q) : q \in {Q_SelectAll, Q_Padded, Q_Inj, Q_Drop, <<>>}}
    \cup {Chunk("P", FALSE, b, <<"s1">>, Q_SelectAll) : b \in BOOLEAN}
    \cup {Chunk("Q", TRUE, TRUE, <<>>, <<>>), Chunk("X", FALSE, TRUE, <<>>, <<>>)}
PXIps == {LOCALHOST, IP_Admin, IP_Other}
PXReplies == {[tag |-> "T"], [tag |-> "Z"]}

InitPX ==
    /\ db \in { Constructed([real |-> Store(FALSE, {}), honeypot |-> Store(FALSE, stale),
                             app |-> Store(TRUE, SeedRows)]) : stale \in {{}, {StaleRow}} }
    /\ logs = <<>>
    /\ query_history = <<>>
    /\ fakeGen = 0
    /\ ncalls = 0
    /\ last = NoCall
    /\ ac = NoCall
    /\ NoApp

\* DatabaseProxyServer.handle_client: connect to the target, start both relays
PXAccept ==
    /\ ~net.open
    /\ \E ip \in PXIps :
          net' = [open |-> TRUE, relaying |-> TRUE, ip |-> ip,
                  to_server |-> <<>>, to_client |-> <<>>]
    /\ last' = [kind |-> "accept"]
    /\ UNCHANGED <<db, logs, query_history, fakeGen, ncalls, ac, appVars, exceptNet>>

\* relay_and_intercept(client_socket, target_socket, client_address, True):
\* one turn of the loop on a chunk received from the client
PXClientData ==
    /\ net.open /\ net.relaying
    /\ ncalls < MaxCalls
    /\ \E data \in PXChunks, hour \in {10, 23} :
          \E query \in {extract_postgresql_query(data)} :
             IF query = <<>>
             THEN /\ net' = sendall(net, "target", data)
                  /\ last' = [kind |-> "client_data", data |-> data, query |-> query,
                              checked |-> FALSE, raised |-> FALSE, authorized |-> TRUE,
                              reason |-> "", net0 |-> net]
                  /\ UNCHANGED <<db, logs, query_history, fakeGen>>
             ELSE \E r \in {fw_execute_query(World, NoWrapper, 0, {}, ProxyAppId(net.ip),
                                             net.ip, detect_operation(query), query, hour)} :
                     /\ db' = r.w.db
                     /\ logs' = r.w.logs
                     /\ query_history' = r.w.query_history
                     /\ fakeGen' = r.w.fakeGen
                     /\ net' = IF r.err # ""
                               THEN [net EXCEPT !.relaying = FALSE]
                               ELSE IF ~r.auth
                               THEN send_error_response(net, "target", r.reason)
                               ELSE sendall(net, "target", data)
                     /\ last' = [kind |-> "client_data", data |-> data, query |-> query,
                                 checked |-> TRUE, raised |-> r.err # "",
                                 authorized |-> r.auth, reason |-> r.reason, net0 |-> net]
    /\ ncalls' = ncalls + 1
    /\ UNCHANGED <<ac, appVars, exceptNet>>

\* relay_and_intercept(target_socket, client_socket, client_address, False)
PXServerData ==
    /\ net.open
    /\ Len(net.to_client) < Len(net.to_server)
    /\ \E data \in PXReplies : net' = sendall(net, "client", data)
    /\ last' = [kind |-> "server_data"]
    /\ UNCHANGED <<db, logs, query_history, fakeGen, ncalls, ac, appVars, exceptNet>>

\* the connection is over: both relays have ended and handle_client has closed
\* the sockets
PXClose ==
    /\ net.open
    /\ net' = NoNet
    /\ last' = [kind |-> "close"]
    /\ UNCHANGED <<db, logs, query_history, fakeGen, ncalls, ac, appVars, exceptNet>>

NextPX == PXAccept \/ PXClientData \/ PXServerData \/ PXClose

SpecPX == InitPX /\ [][NextPX]_vars

(***************************************************************************)
(* database_protection/secure_db_guardian.py.  The guardian matches its    *)
(* patterns as substrings of the statement text, so a statement here is    *)
(* the sequence of its characters.  The wrapped sqlite3 connection is      *)
(* represented by the calls the proxy delegates to it; the audit database  *)
(* is taken to be writable.                                                *)
(***************************************************************************)
\* str.upper() on one character
CharUpper(s) ==
    CASE s = "a" -> "A"
      [] s = "b" -> "B" [] s = "c" -> "C" [] s = "d" -> "D" [] s = "e" -> "E"
      [] s = "f" -> "F" [] s = "g" -> "G" [] s = "h" -> "H" [] s = "i" -> "I"
      [] s = "j" -> "J" [] s = "k" -> "K" [] s = "l" -> "L" [] s = "m" -> "M"
      [] s = "n" -> "N" [] s = "o" -> "O" [] s = "p" -> "P" [] s = "q" -> "Q"
      [] s = "r" -> "R" [] s = "s" -> "S" [] s = "t" -> "T" [] s = "u" -> "U"
      [] s = "v" -> "V" [] s = "w" -> "W" [] s = "x" -> "X" [] s = "y" -> "Y"
      [] s = "z" -> "Z"
      [] OTHER -> s
upper(text) == [i \in 1..Len(text) |-> CharUpper(text[i])]

\* pattern in text
Contains(pattern, text) ==
    \E i \in 1..(Len(text) - Len(pattern) + 1) :
       SubSeq(text, i, i + Len(pattern) - 1) = pattern
\* text.strip().startswith(prefix)
StartsWith(prefix, text) ==
    Len(strip(text)) >= Len(prefix) /\ SubSeq(strip(text), 1, Len(prefix)) = prefix

P_DropTable == <<"D", "R", "O", "P", " ", "T", "A", "B", "L", "E">>
P_DeleteUsers == <<"D", "E", "L", "E", "T", "E", " ", "F", "R", "O", "M", " ", "u",
    "s", "e", "r", "s", " ", "W", "H", "E", "R", "E">>
P_UpdateUsers == <<"U", "P", "D", "A", "T", "E", " ", "u", "s", "e", "r", "s", " ",
    "S", "E", "T">>
P_AlterTable == <<"A", "L", "T", "E", "R", " ", "T", "A", "B", "L", "E">>
P_Marker == <<"-", "-", " ", "I", "N", "J", "E", "C", "T", "I", "O", "N">>
P_UnionSelect == <<"U", "N", "I", "O", "N", " ", "S", "E", "L", "E", "C", "T">>
P_OrOne == <<"O", "R", " ", "'", "1", "'", "=", "'", "1">>
P_SemiDrop == <<";", " ", "D", "R", "O", "P">>
P_QuoteOr == <<"'", " ", "O", "R">>
P_DquoteOr == <<"\"", " ", "O", "R">>

\* SecureDatabaseGuardian._blocked_patterns
_blocked_patterns ==
    <<P_DropTable, P_DeleteUsers, P_UpdateUsers, P_AlterTable, P_Marker,
      P_UnionSelect, P_OrOne, P_SemiDrop, P_QuoteOr, P_DquoteOr>>

K_CREATE == <<"C", "R", "E", "A", "T", "E">>
K_DROP == <<"D", "R", "O", "P">>
K_DELETE == <<"D", "E", "L", "E", "T", "E">>
K_ALTER == <<"A", "L", "T", "E", "R">>
K_SELECT == <<"S", "E", "L", "E", "C", "T">>

S_Select == <<"S", "E", "L", "E", "C", "T", " ", "1">>
S_DropTable == <<"d", "r", "o", "p", " ", "t", "a", "b", "l", "e", " ", "u", "s", "e",
    "r", "s">>
S_DeleteUser == <<"D", "E", "L", "E", "T", "E", " ", "F", "R", "O", "M", " ", "u", "s",
    "e", "r", "s", " ", "W", "H", "E", "R", "E", " ", "i", "d", "=", "1">>
S_UpdateUser == <<"u", "p", "d", "a", "t", "e", " ", "u", "s", "e", "r", "s", " ", "s",
    "e", "t", " ", "a", "=", "1">>
S_Create == <<"C", "R", "E", "A", "T", "E", " ", "T", "A", "B", "L", "E", " ", "t",
    "(", "a", ")">>
S_QuoteOr == <<"S", "E", "L", "E", "C", "T", " ", "'", "a", "'", " ", "o", "r", " ",
    "1">>
S_Insert == <<"I", "N", "S", "E", "R", "T", " ", "I", "N", "T", "O", " ", "t", " ",
    "V", "A", "L", "U", "E", "S", "(", "?", ")">>

GuardApps == {"unknown", "reports"}
Closed == "Cannot operate on a closed database."
\* dict.get(key, default)
Get(d, k, default) == IF k \in DOMAIN d THEN d[k] ELSE default

\* SecureDatabaseGuardian.log_access: one row of access_logs (sql[:500] keeps
\* every statement used here whole)
log_access(gd, app_id, ip, operation, sql, result, blocked_reason) ==
    [gd EXCEPT !.access_logs =
        Append(@, [app_id |-> app_id, ip |-> ip, operation |-> operation,
                   sql |-> SubSeq(sql, 1, IF Len(sql) > 500 THEN 500 ELSE Len(sql)),
                   result |-> result, blocked_reason |-> blocked_reason])]

\* self._permissions.get(app_id, self._permissions['default'])
PermissionsOf(gd, app_id) ==
    IF app_id \in DOMAIN gd.permissions THEN gd.permissions[app_id]
    ELSE gd.permissions["default"]

\* the first pattern of the list found in the upper-cased statement, 0 if none
RECURSIVE FirstPattern(_, _)
FirstPattern(sql_upper, i) ==
    IF i > Len(_blocked_patterns) THEN 0
    ELSE IF Contains(_blocked_patterns[i], sql_upper) THEN i
    ELSE FirstPattern(sql_upper, i + 1)

\* the operation type checks of check_permission, after the pattern scan
capability_check(gd, app_id, ip, operation, sql, sql_upper) ==
    IF operation \in {"execute", "executemany"}
       /\ Contains(K_CREATE, sql_upper)
       /\ ~Get(PermissionsOf(gd, app_id), "create", FALSE)
    THEN [gd |-> log_access(gd, app_id, ip, operation, sql, "blocked",
                            "No create permission"), ok |-> FALSE]
    ELSE IF operation \in {"execute", "executemany"}
       /\ (Contains(K_DROP, sql_upper) \/ Contains(K_DELETE, sql_upper)
           \/ Contains(K_ALTER, sql_upper))
       /\ ~Get(PermissionsOf(gd, app_id), "write", FALSE)
    THEN [gd |-> log_access(gd, app_id, ip, operation, sql, "blocked",
                            "No write permission"), ok |-> FALSE]
    ELSE IF operation \in {"execute", "executemany"}
       /\ StartsWith(K_SELECT, sql_upper)
       /\ ~Get(PermissionsOf(gd, app_id), "read", TRUE)
    THEN [gd |-> log_access(gd, app_id, ip, operation, sql, "blocked",
                            "No read permission"), ok |-> FALSE]
    ELSE [gd |-> log_access(gd, app_id, ip, operation, sql, "allowed", "None"),
          ok |-> TRUE]

\* SecureDatabaseGuardian.check_permission
check_permission(gd, app_id, ip, operation, sql) ==
    The({ IF FirstPattern(sql_upper, 1) # 0
          THEN [gd |-> log_access(gd, app_id, ip, operation, sql, "blocked",
                                  [pattern |-> _blocked_patterns[FirstPattern(sql_upper, 1)]]),
                ok |-> FALSE]
          ELSE capability_check(gd, app_id, ip, operation, sql, sql_upper)
          : sql_upper \in {upper(sql)} })

\* a call the proxy passes on to the sqlite3 connection it wraps
real_call(gd, method, args) ==
    [gd EXCEPT !.real.calls = Append(@, [method |-> method, args |-> args])]

\* SecureDatabaseGuardian.connect
guardian_connect(gd, app_id, ip) ==
    [log_access(gd, app_id, ip, "connect", <<>>, "success", "None") EXCEPT
        !.proxy = [exists |-> TRUE, app_id |-> app_id, ip |-> ip, closed |-> FALSE],
        !.real = [open |-> TRUE, calls |-> <<>>]]

\* SecureDatabaseGuardian.set_permissions
set_permissions(gd, app_id, permissions) ==
    [gd EXCEPT !.permissions =
        [a \in DOMAIN @ \cup {app_id} |-> IF a = app_id THEN permissions ELSE @[a]]]

\* SecureConnectionProxy.execute and .executemany
proxy_execute(gd, method, sql, parameters) ==
    IF gd.proxy.closed THEN [gd |-> gd, err |-> Closed]
    ELSE The({ IF c.ok
               THEN [gd |-> real_call(c.gd, method, <<sql, parameters>>), err |-> ""]
               ELSE [gd |-> c.gd, err |-> "Access denied by database guardian"]
               : c \in {check_permission(gd, gd.proxy.app_id, gd.proxy.ip, method, sql)} })

\* SecureConnectionProxy.cursor
proxy_cursor(gd) ==
    IF gd.proxy.closed THEN [gd |-> gd, err |-> Closed]
    ELSE [gd |-> real_call(gd, "cursor", <<>>), err |-> ""]

\* SecureConnectionProxy.commit
proxy_commit(gd) ==
    IF gd.proxy.closed THEN [gd |-> gd, err |-> Closed]
    ELSE The({ IF c.ok
               THEN [gd |-> real_call(c.gd, "commit", <<>>), err |-> ""]
               ELSE [gd |-> c.gd, err |-> "Commit access denied by database guardian"]
               : c \in {check_permission(gd, gd.proxy.app_id, gd.proxy.ip, "commit", <<>>)} })

\* SecureConnectionProxy.rollback
proxy_rollback(gd) ==
    IF gd.proxy.closed THEN [gd |-> gd, err |-> Closed]
    ELSE [gd |-> real_call(gd, "rollback", <<>>), err |-> ""]

\* close() without the test of self._closed
proxy_close_unguarded(gd) ==
    [real_call(log_access(gd, gd.proxy.app_id, gd.proxy.ip, "close", <<>>,
                          "success", "None"), "close", <<>>) EXCEPT
        !.real.open = FALSE, !.proxy.closed = TRUE]

\* SecureConnectionProxy.close
proxy_close(gd) ==
    IF ~gd.proxy.closed
    THEN [real_call(log_access(gd, gd.proxy.app_id, gd.proxy.ip, "close", <<>>,
                               "success", "None"), "close", <<>>) EXCEPT
             !.real.open = FALSE, !.proxy.closed = TRUE]
    ELSE gd

GuardStatements ==
    {S_Select, S_DropTable, S_DeleteUser, S_UpdateUser, S_Create, S_QuoteOr}
GuardPermissions ==
    {[read |-> FALSE, write |-> FALSE, create |-> TRUE], [write |-> TRUE]}

InitGD ==
    /\ db = [real |-> Store(FALSE, {}), honeypot |-> Store(FALSE, {}),
             app |-> Store(TRUE, SeedRows)]
    /\ logs = <<>>
    /\ query_history = <<>>
    /\ fakeGen = 0
    /\ ncalls = 0
    /\ last = NoCall
    /\ ac = NoCall
    /\ NoApp

\* conn = guardian.connect(path, app_id, ip)
GDConnect ==
    /\ ~guard.proxy.exists
    /\ \E a \in GuardApps : guard' = guardian_connect(guard, a, LOCALHOST)
    /\ last' = [kind |-> "connect"]
    /\ UNCHANGED <<db, logs, query_history, fakeGen, ncalls, ac, appVars, exceptGuard>>

\* guardian.set_permissions(app_id, permissions)
GDSetPermissions ==
    /\ DOMAIN guard.permissions = {"default"}
    /\ \E a \in GuardApps, p \in GuardPermissions :
          guard' = set_permissions(guard, a, p)
    /\ last' = [kind |-> "set_permissions"]
    /\ UNCHANGED <<db, logs, query_history, fakeGen, ncalls, ac, appVars, exceptGuard>>

\* conn.execute(sql)
GDExecute ==
    /\ guard.proxy.exists
    /\ ncalls < MaxCalls
    /\ \E sql \in GuardStatements :
          \E r \in {proxy_execute(guard, "execute", sql, <<>>)} :
             /\ guard' = r.gd
             /\ last' = [kind |-> "execute", sql |-> sql, err |-> r.err, g0 |-> guard]
    /\ ncalls' = ncalls + 1
    /\ UNCHANGED <<db, logs, query_history, fakeGen, ac, appVars, exceptGuard>>

\* conn.executemany(sql, parameters_list)
GDExecutemany ==
    /\ guard.proxy.exists
    /\ ncalls < MaxCalls
    /\ \E sql \in {S_Insert, S_UpdateUser} :
          \E r \in {proxy_execute(guard, "executemany", sql, <<<<"1">>, <<"2">>>>)} :
             /\ guard' = r.gd
             /\ last' = [kind |-> "executemany", sql |-> sql, err |-> r.err, g0 |-> guard]
    /\ ncalls' = ncalls + 1
    /\ UNCHANGED <<db, logs, query_history, fakeGen, ac, appVars, exceptGuard>>

\* conn.cursor()
GDCursor ==
    /\ guard.proxy.exists
    /\ ncalls < MaxCalls
    /\ \E r \in {proxy_cursor(guard)} :
          /\ guard' = r.gd
          /\ last' = [kind |-> "cursor", sql |-> <<>>, err |-> r.err, g0 |-> guard]
    /\ ncalls' = ncalls + 1
    /\ UNCHANGED <<db, logs, query_history, fakeGen, ac, appVars, exceptGuard>>

\* conn.commit()
GDCommit ==
    /\ guard.proxy.exists
    /\ ncalls < MaxCalls
    /\ \E r \in {proxy_commit(guard)} :
          /\ guard' = r.gd
          /\ last' = [kind |-> "commit", sql |-> <<>>, err |-> r.err, g0 |-> guard]
    /\ ncalls' = ncalls + 1
    /\ UNCHANGED <<db, logs, query_history, fakeGen, ac, appVars, exceptGuard>>

\* conn.rollback()
GDRollback ==
    /\ guard.proxy.exists
    /\ ncalls < MaxCalls
    /\ \E r \in {proxy_rollback(guard)} :
          /\ guard' = r.gd
          /\ last' = [kind |-> "rollback", sql |-> <<>>, err |-> r.err, g0 |-> guard]
    /\ ncalls' = ncalls + 1
    /\ UNCHANGED <<db, logs, query_history, fakeGen, ac, appVars, exceptGuard>>

\* conn.close()
GDClose ==
    /\ guard.proxy.exists
    /\ ncalls < MaxCalls
    /\ guard' = proxy_close(guard)
    /\ last' = [kind |-> "close", sql |-> <<>>, err |-> "", g0 |-> guard]
    /\ ncalls' = ncalls + 1
    /\ UNCHANGED <<db, logs, query_history, fakeGen, ac, appVars, exceptGuard>>

NextGD ==
    \/ GDConnect \/ GDSetPermissions \/ GDExecute \/ GDExecutemany
    \/ GDCursor \/ GDCommit \/ GDRollback \/ GDClose

SpecGD == InitGD /\ [][NextGD]_vars

(***************************************************************************)
(* security/threat_analyzer.py.  Time is counted in ticks of half an hour. *)
(***************************************************************************)
Hour == 2
MaxAttempts == 10
MaxTime == 3
ThreatIps == {IP_Admin, IP_Other}
ThreatReasons == {"SQL injection detected"}

\* self.ip_attempts.get(ip, [])
AttemptsOf(t, ip) == IF ip \in DOMAIN t.ip_attempts THEN t.ip_attempts[ip] ELSE <<>>

\* the cleaning with an attempt exactly one hour old kept
_clean_old_attempts_inclusive(t, ip, time) ==
    IF ip \in DOMAIN t.ip_attempts
    THEN [t EXCEPT !.ip_attempts[ip] =
             SelectSeq(@, LAMBDA attempt : attempt.timestamp >= time - Hour)]
    ELSE t

\* ThreatAnalyzer._clean_old_attempts, reading the clock at `time`
_clean_old_attempts(t, ip, time) ==
    IF ip \in DOMAIN t.ip_attempts
    THEN [t EXCEPT !.ip_attempts[ip] =
             SelectSeq(@, LAMBDA attempt : attempt.timestamp > time - Hour)]
    ELSE t

\* the if/elif chain of analyze_threat_level
ThreatLevel(recent_attempts) ==
    IF recent_attempts >= 10 THEN "CRITICAL"
    ELSE IF recent_attempts >= 5 THEN "HIGH"
    ELSE IF recent_attempts >= 3 THEN "MEDIUM"
    ELSE "LOW"

\* ThreatAnalyzer.analyze_threat_level; current_time is the first reading of
\* the clock and clean_time the one taken by _clean_old_attempts
analyze_threat_level(t, ip, reason, current_time, clean_time) ==
    The({ [t |-> c, level |-> ThreatLevel(Len(c.ip_attempts[ip]))]
          : c \in {_clean_old_attempts(
                     [t EXCEPT !.ip_attempts =
                         [i \in DOMAIN @ \cup {ip} |->
                             IF i = ip
                             THEN Append(AttemptsOf(t, ip),
                                         [timestamp |-> current_time, reason |-> reason])
                             ELSE @[i]]],
                     ip, clean_time)} })

InitTA ==
    /\ db = [real |-> Store(FALSE, {}), honeypot |-> Store(FALSE, {}),
             app |-> Store(TRUE, SeedRows)]
    /\ logs = <<>>
    /\ query_history = <<>>
    /\ fakeGen = 0
    /\ ncalls = 0
    /\ last = NoCall
    /\ ac = NoCall
    /\ NoApp

\* time passes
TATick ==
    /\ now < MaxTime
    /\ now' = now + 1
    /\ UNCHANGED <<db, logs, query_history, fakeGen, ncalls, last, ac, appVars,
                   threat, exceptThreat>>

\* analyzer.analyze_threat_level(ip, reason)
TAAnalyze ==
    /\ \E ip \in ThreatIps, reason \in ThreatReasons, d \in {0, 1} :
          /\ Len(AttemptsOf(threat, ip)) < MaxAttempts
          /\ now + d <= MaxTime
          /\ \E r \in {analyze_threat_level(threat, ip, reason, now, now + d)} :
                /\ threat' = r.t
                /\ last' = [kind |-> "analyze", ip |-> ip, level |-> r.level,
                            attempts0 |-> AttemptsOf(threat, ip),
                            current_time |-> now, clean_time |-> now + d]
          /\ now' = now + d
    /\ UNCHANGED <<db, logs, query_history, fakeGen, ncalls, ac, appVars, exceptThreat>>

NextTA == TATick \/ TAAnalyze

SpecTA == InitTA /\ [][NextTA]_vars

(***************************************************************************)
(* api/middleware.py: SecurityMiddleware.rate_limit.  One middleware       *)
(* object decorates the handlers of an application, each with its own      *)
(* max_requests and window_seconds; rate_limits is the object's attribute  *)
(* and is keyed by the client address alone.  Times are clock ticks.       *)
(***************************************************************************)
\* @middleware.rate_limit(max_requests, window_seconds) on two handlers
Decorated ==
    [login  |-> [max_requests |-> 2, window_seconds |-> 3],
     search |-> [max_requests |-> 1, window_seconds |-> 1]]
LimiterIps == {IP_Admin, IP_Other}
MaxRequests == 4

\* self.rate_limits[ip], [] when the address is new
RequestsOf(l, ip) == IF ip \in DOMAIN l.rate_limits THEN l.rate_limits[ip] ELSE <<>>

\* the list comprehension of the wrapper: timestamps still inside the window
InWindow(times, current_time, window_seconds) ==
    SelectSeq(times, LAMBDA req_time : current_time - req_time < window_seconds)

SetRequests(l, ip, times) ==
    [l EXCEPT !.rate_limits =
        [i \in DOMAIN @ \cup {ip} |-> IF i = ip THEN times ELSE @[i]]]

\* the wrapper returned by rate_limit(max_requests, window_seconds)(f), called
\* for a request of `ip` to handler `f` when time.time() is current_time
rate_limit(l, f, ip, current_time) ==
    The({ IF Len(kept) >= Decorated[f].max_requests
          THEN [l |-> SetRequests(l, ip, kept), status |-> 429, admitted |-> FALSE]
          ELSE [l |-> [SetRequests(l, ip, Append(kept, current_time)) EXCEPT
                          !.handled = Append(@, [f |-> f, ip |-> ip, time |-> current_time])],
                status |-> 200, admitted |-> TRUE]
          : kept \in {InWindow(RequestsOf(l, ip), current_time,
                               Decorated[f].window_seconds)} })

InitRL ==
    /\ db = [real |-> Store(FALSE, {}), honeypot |-> Store(FALSE, {}),
             app |-> Store(TRUE, SeedRows)]
    /\ logs = <<>>
    /\ query_history = <<>>
    /\ fakeGen = 0
    /\ ncalls = 0
    /\ last = NoCall
    /\ ac = NoCall
    /\ NoApp

\* time passes
RLTick ==
    /\ now < MaxTime
    /\ now' = now + 1
    /\ UNCHANGED <<db, logs, query_history, fakeGen, ncalls, last, ac, appVars,
                   limiter, exceptLimiter>>

\* a request from `ip` reaches a decorated handler
RLRequest ==
    /\ ncalls < MaxRequests
    /\ \E f \in DOMAIN Decorated, ip \in LimiterIps :
          \E r \in {rate_limit(limiter, f, ip, now)} :
             /\ limiter' = r.l
             /\ last' = [kind |-> "request", f |-> f, ip |-> ip, time |-> now,
                         status |-> r.status, admitted |-> r.admitted, l0 |-> limiter]
    /\ ncalls' = ncalls + 1
    /\ UNCHANGED <<db, logs, query_history, fakeGen, now, ac, appVars, exceptLimiter>>

NextRL == RLTick \/ RLRequest

SpecRL == InitRL /\ [][NextRL]_vars

(***************************************************************************)
(* database/query_validator.py.  A query is the sequence of its            *)
(* characters, as in the guardian.                                         *)
(***************************************************************************)
K_TRUNCATE == <<"T", "R", "U", "N", "C", "A", "T", "E">>
K_EXEC == <<"E", "X", "E", "C">>
K_EXECUTE == <<"E", "X", "E", "C", "U", "T", "E">>
K_GRANT == <<"G", "R", "A", "N", "T">>
K_REVOKE == <<"R", "E", "V", "O", "K", "E">>
K_SHUTDOWN == <<"S", "H", "U", "T", "D", "O", "W", "N">>
K_INSERT == <<"I", "N", "S", "E", "R", "T">>
K_UPDATE == <<"U", "P", "D", "A", "T", "E">>
K_OR == <<"O", "R">>
K_AND == <<"A", "N", "D">>
K_UNION == <<"U", "N", "I", "O", "N">>

\* QueryValidator.DANGEROUS_KEYWORDS
DANGEROUS_KEYWORDS ==
    <<K_DROP, K_TRUNCATE, K_ALTER, K_CREATE, K_EXEC, K_EXECUTE, K_GRANT, K_REVOKE,
      K_SHUTDOWN>>
\* QueryValidator.DDL_OPS
DDL_OPS == <<K_CREATE, K_ALTER, K_DROP, K_TRUNCATE>>

V_Select == <<"S", "E", "L", "E", "C", "T", " ", "*", " ", "F", "R", "O", "M", " ",
    "u", "s", "e", "r", "s">>
V_Drop == <<"d", "r", "o", "p", " ", "t", "a", "b", "l", "e", " ", "u", "s", "e", "r",
    "s">>
V_DropUnderscore == <<"S", "E", "L", "E", "C", "T", " ", "d", "r", "o", "p", "_", "t",
    "a", "b", "l", "e", " ", "F", "R", "O", "M", " ", "t">>
V_Truncate == <<"T", "R", "U", "N", "C", "A", "T", "E", " ", "T", "A", "B", "L", "E",
    " ", "t">>
V_Alter == <<"a", "l", "t", "e", "r", " ", "t", "a", "b", "l", "e", " ", "t", " ", "a",
    "d", "d", " ", "c">>
V_Create == <<"C", "R", "E", "A", "T", "E", " ", "T", "A", "B", "L", "E", " ", "t",
    "(", "a", ")">>
V_Exec == <<"E", "X", "E", "C", " ", "s", "p", "_", "w", "h", "o">>
V_Execute == <<"e", "x", "e", "c", "u", "t", "e", " ", "s", "p", "_", "w", "h", "o">>
V_Grant == <<"G", "R", "A", "N", "T", " ", "A", "L", "L", " ", "O", "N", " ", "t", " ",
    "T", "O", " ", "u">>
V_Revoke == <<"r", "e", "v", "o", "k", "e", " ", "a", "l", "l", " ", "o", "n", " ",
    "t", " ", "f", "r", "o", "m", " ", "u">>
V_Shutdown == <<"S", "H", "U", "T", "D", "O", "W", "N">>
V_Created == <<"S", "E", "L", "E", "C", "T", " ", "c", "r", "e", "a", "t", "e", "d",
    " ", "F", "R", "O", "M", " ", "t">>
V_Two == <<"S", "E", "L", "E", "C", "T", " ", "1", ";", " ", "S", "E", "L", "E", "C",
    "T", " ", "2">>
V_SemiInString == <<"S", "E", "L", "E", "C", "T", " ", "'", ";", "x", "'">>
V_Trailing == <<"S", "E", "L", "E", "C", "T", " ", "1", ";">>
V_BlockComment == <<"S", "E", "L", "E", "C", "T", " ", "1", " ", "/", "*", " ", "x",
    " ", "*", "/">>
V_LineComment == <<"S", "E", "L", "E", "C", "T", " ", "1", " ", "-", "-", " ", "o",
    "r">>
V_Blank == <<" ", " ">>
V_Empty == <<>>
V_Insert == <<" ", "I", "N", "S", "E", "R", "T", " ", "I", "N", "T", "O", " ", "t",
    " ", "V", "A", "L", "U", "E", "S", "(", "1", ")", " ">>
V_GrantSelect == <<"S", "E", "L", "E", "C", "T", " ", "1", ";", " ", "G", "R", "A",
    "N", "T", " ", "A", "L", "L", " ", "O", "N", " ", "t", " ", "T", "O", " ", "u">>
ValidatorQueries ==
    {V_Select, V_Drop, V_DropUnderscore, V_Truncate, V_Alter,
     V_Create, V_Exec, V_Execute, V_Grant, V_Revoke,
     V_Shutdown, V_Created, V_Two, V_SemiInString, V_Trailing,
     V_BlockComment, V_LineComment, V_Blank, V_Empty, V_Insert,
     V_GrantSelect}
ValidatorAllowed == {<<>>, <<K_SELECT>>, <<K_SELECT, K_INSERT>>}

\* \w of the regular expressions, on the characters used here
IsWordChar(c) ==
    c \in {"A", "B", "C", "D", "E", "F", "G", "H", "I", "J", "K", "L", "M", "N", "O", "P",
           "Q", "R", "S", "T", "U", "V", "W", "X", "Y", "Z", "_", "0", "1", "2", "3", "4",
           "5", "6", "7", "8", "9"}
       \/ CharUpper(c) # c

\* re.search(r'\b' + keyword + r'\b', text)
HasWord(keyword, text) ==
    \E i \in 1..(Len(text) - Len(keyword) + 1) :
       /\ SubSeq(text, i, i + Len(keyword) - 1) = keyword
       /\ (i = 1 \/ ~IsWordChar(text[i - 1]))
       /\ (i + Len(keyword) - 1 = Len(text) \/ ~IsWordChar(text[i + Len(keyword)]))

\* QueryValidator._check_dangerous_keywords: the first keyword of the list
\* that makes the loop return
_check_dangerous_keywords(v, query) ==
    LET hits == {k \in 1..Len(DANGEROUS_KEYWORDS) :
                   /\ HasWord(DANGEROUS_KEYWORDS[k], upper(query))
                   /\ DANGEROUS_KEYWORDS[k] \in Range(DDL_OPS)
                   /\ ~v.allow_ddl}
    IN IF hits = {} THEN <<FALSE, "">>
       ELSE <<TRUE, [dangerous |->
                       DANGEROUS_KEYWORDS[CHOOSE k \in hits : \A j \in hits : k <= j]]>>

\* query_upper.split()[0]
RECURSIVE FirstKeyword(_)
FirstKeyword(text) ==
    IF text = <<>> \/ text[1] = " " THEN <<>>
    ELSE <<text[1]>> \o FirstKeyword(Tail(text))

\* QueryValidator._check_allowed_operations
_check_allowed_operations(query, allowed_operations) ==
    IF FirstKeyword(strip(upper(query)))
          \notin {upper(allowed_operations[i]) : i \in 1..Len(allowed_operations)}
    THEN <<FALSE, [not_allowed |-> FirstKeyword(strip(upper(query)))]>>
    ELSE <<TRUE, "">>

\* QueryValidator._has_multiple_statements: the scan from position i
RECURSIVE ScanStatements(_, _, _, _)
ScanStatements(query, i, in_string, string_char) ==
    IF i > Len(query) THEN FALSE
    ELSE IF query[i] \in {"\"", "'"} /\ (i = 1 \/ query[i - 1] # "\\")
    THEN IF ~in_string THEN ScanStatements(query, i + 1, TRUE, query[i])
         ELSE IF query[i] = string_char
         THEN ScanStatements(query, i + 1, FALSE, string_char)
         ELSE ScanStatements(query, i + 1, in_string, string_char)
    ELSE IF query[i] = ";" /\ ~in_string
            /\ strip(SubSeq(query, i + 1, Len(query))) # <<>>
            /\ SubSeq(strip(SubSeq(query, i + 1, Len(query))), 1, 2) # <<"-", "-">>
    THEN TRUE
    ELSE ScanStatements(query, i + 1, in_string, string_char)
_has_multiple_statements(query) == ScanStatements(query, 1, FALSE, "")

\* QueryValidator._has_suspicious_comments
_has_suspicious_comments(query) ==
    \/ \E i \in 1..Len(query), j \in 1..Len(query) :
          /\ j >= i + 2
          /\ SubSeq(query, i, i + 1) = <<"/", "*">>
          /\ SubSeq(query, j, j + 1) = <<"*", "/">>
    \/ \E i \in 1..Len(query), j \in 1..Len(query), kw \in {K_OR, K_AND, K_UNION} :
          /\ j >= i + 2
          /\ SubSeq(query, i, i + 1) = <<"-", "-">>
          /\ SubSeq(upper(query), j, j + Len(kw) - 1) = kw
          /\ \A k \in (i + 2)..(j - 1) : query[k] # "\n"

\* QueryValidator.validate_query
validate_query(v, query, allowed_operations) ==
    IF strip(query) = <<>> THEN <<FALSE, "Empty query">>
    ELSE IF _check_dangerous_keywords(v, strip(query))[1]
    THEN <<FALSE, _check_dangerous_keywords(v, strip(query))[2]>>
    ELSE IF allowed_operations # <<>>
            /\ ~_check_allowed_operations(strip(query), allowed_operations)[1]
    THEN <<FALSE, _check_allowed_operations(strip(query), allowed_operations)[2]>>
    ELSE IF _has_multiple_statements(strip(query))
    THEN <<FALSE, "Multiple SQL statements not allowed">>
    ELSE IF _has_suspicious_comments(strip(query))
    THEN <<FALSE, "Suspicious SQL comments detected">>
    ELSE <<TRUE, "Query is valid">>

InitQV ==
    /\ db = [real |-> Store(FALSE, {}), honeypot |-> Store(FALSE, {}),
             app |-> Store(TRUE, SeedRows)]
    /\ logs = <<>>
    /\ query_history = <<>>
    /\ fakeGen = 0
    /\ ncalls = 0
    /\ last = NoCall
    /\ ac = NoCall
    /\ NoApp

\* validator.set_allow_ddl(allow)
QVSetAllowDdl ==
    /\ \E allow \in BOOLEAN : validator' = [validator EXCEPT !.allow_ddl = allow]
    /\ last' = [kind |-> "set_allow_ddl"]
    /\ UNCHANGED <<db, logs, query_history, fakeGen, ncalls, ac, appVars, exceptValidator>>

\* validator.validate_query(query, allowed_operations)
QVValidate ==
    /\ \E query \in ValidatorQueries, allowed_operations \in ValidatorAllowed :
          \E r \in {validate_query(validator, query, allowed_operations)} :
             last' = [kind |-> "validate_query", query |-> query,
                      allowed_operations |-> allowed_operations,
                      is_valid |-> r[1], message |-> r[2]]
    /\ UNCHANGED <<db, logs, query_history, fakeGen, ncalls, ac, appVars, validator,
                   exceptValidator>>

NextQV == QVSetAllowDdl \/ QVValidate

SpecQV == InitQV /\ [][NextQV]_vars

(***************************************************************************)
(* database/adapters: SQLiteAdapter, PostgreSQLAdapter, MySQLAdapter.      *)
(* The database holds one table t(id PRIMARY KEY), given by the set of its *)
(* ids.  A connection is [in_transaction, view, aborted]: view is the      *)
(* table as the connection sees it while its transaction is open, aborted  *)
(* the failed-transaction state of PostgreSQL.  A statement is [op, ids,   *)
(* or_fail]: INSERT [OR FAIL] INTO t VALUES (id),.., DELETE FROM t WHERE   *)
(* id IN (..), SELECT * FROM t, or ("nosuch") UPDATE nosuch SET v = 1.     *)
(***************************************************************************)
AdapterEngines == {"sqlite", "postgresql", "mysql"}
Statement(op, ids, or_fail) == [op |-> op, ids |-> ids, or_fail |-> or_fail]
U_Insert      == Statement("insert", <<2>>, FALSE)
U_InsertDup   == Statement("insert", <<1>>, FALSE)
U_InsertTwo   == Statement("insert", <<3, 1>>, FALSE)
U_InsertOrFail == Statement("insert", <<3, 1>>, TRUE)
U_Delete      == Statement("delete", <<1>>, FALSE)
U_NoSuch      == Statement("nosuch", <<>>, FALSE)
U_Select      == Statement("select", <<>>, FALSE)
AdapterUpdates == {U_Insert, U_InsertDup, U_InsertTwo, U_InsertOrFail, U_Delete, U_NoSuch}

NewConnection == [in_transaction |-> FALSE, view |-> {}, aborted |-> FALSE]
\* the table as the connection sees it
Seen(cn, database) == IF cn.in_transaction THEN cn.view ELSE database
\* the transaction the driver opens before the statement runs
Begun(cn, database) == [cn EXCEPT !.in_transaction = TRUE, !.view = Seen(cn, database)]

\* the position of the first id of an INSERT that violates the primary key,
\* 0 if none does
FirstConflict(ids, seen) ==
    LET bad == {k \in 1..Len(ids) :
                  ids[k] \in seen \/ \E j \in 1..(k - 1) : ids[j] = ids[k]}
    IN IF bad = {} THEN 0 ELSE CHOOSE k \in bad : \A j \in bad : k <= j

\* the rows a successful statement leaves and the count it reports
After(stmt, seen) ==
    IF stmt.op = "insert" THEN seen \cup Range(stmt.ids)
    ELSE IF stmt.op = "delete" THEN seen \ Range(stmt.ids)
    ELSE seen
Affected(stmt, seen) ==
    IF stmt.op = "insert" THEN Len(stmt.ids)
    ELSE IF stmt.op = "delete" THEN Cardinality(seen \cap Range(stmt.ids))
    ELSE -1

\* sqlite3 cursor.execute: a statement that does not compile raises before a
\* transaction is begun; a data-changing statement begins one; a conflict
\* undoes the statement (ABORT) or keeps the rows already written (OR FAIL)
sqlite_execute(cn, database, stmt) ==
    IF stmt.op = "nosuch" THEN [cn |-> cn, err |-> "OperationalError", rowcount |-> -1]
    ELSE IF stmt.op = "select" THEN [cn |-> cn, err |-> "", rowcount |-> -1]
    ELSE IF stmt.op = "insert" /\ FirstConflict(stmt.ids, Seen(cn, database)) # 0
    THEN [cn |-> [Begun(cn, database) EXCEPT
                     !.view = IF stmt.or_fail
                              THEN @ \cup {stmt.ids[j] : j \in
                                      1..(FirstConflict(stmt.ids, Seen(cn, database)) - 1)}
                              ELSE @],
          err |-> "IntegrityError", rowcount |-> -1]
    ELSE [cn |-> [Begun(cn, database) EXCEPT !.view = After(stmt, @)],
          err |-> "", rowcount |-> Affected(stmt, Seen(cn, database))]

\* psycopg2 cursor.execute with autocommit off: every statement runs in a
\* transaction, and an error puts that transaction in the failed state
postgresql_execute(cn, database, stmt) ==
    IF cn.aborted THEN [cn |-> cn, err |-> "InFailedSqlTransaction", rowcount |-> -1]
    ELSE IF stmt.op = "nosuch" \/ stmt.or_fail
            \/ (stmt.op = "insert" /\ FirstConflict(stmt.ids, Seen(cn, database)) # 0)
    THEN [cn |-> [Begun(cn, database) EXCEPT !.aborted = TRUE],
          err |-> IF stmt.or_fail THEN "SyntaxError"
                  ELSE IF stmt.op = "nosuch" THEN "UndefinedTable" ELSE "UniqueViolation",
          rowcount |-> -1]
    ELSE [cn |-> [Begun(cn, database) EXCEPT !.view = After(stmt, @)],
          err |-> "", rowcount |-> Affected(stmt, Seen(cn, database))]

\* mysql.connector cursor.execute with autocommit off (InnoDB): a statement
\* that fails is undone alone, the transaction stays open
mysql_execute(cn, database, stmt) ==
    IF stmt.op = "nosuch" \/ stmt.or_fail
    THEN [cn |-> cn, err |-> "ProgrammingError", rowcount |-> -1]
    ELSE IF stmt.op = "insert" /\ FirstConflict(stmt.ids, Seen(cn, database)) # 0
    THEN [cn |-> Begun(cn, database), err |-> "IntegrityError", rowcount |-> -1]
    ELSE [cn |-> [Begun(cn, database) EXCEPT !.view = After(stmt, @)],
          err |-> "", rowcount |-> Affected(stmt, Seen(cn, database))]

engine_execute(engine, cn, database, stmt) ==
    IF engine = "sqlite" THEN sqlite_execute(cn, database, stmt)
    ELSE IF engine = "postgresql" THEN postgresql_execute(cn, database, stmt)
    ELSE mysql_execute(cn, database, stmt)

\* connection.commit() and connection.rollback()
adapter_commit(a) ==
    [a EXCEPT !.database = Seen(a.connection[1], a.database),
              !.connection = <<NewConnection>>]
adapter_rollback(a) == [a EXCEPT !.connection = <<NewConnection>>]

\* SQLiteAdapter.execute_update: try / finally, no except clause
SQLiteAdapter_execute_update(a, stmt) ==
    IF a.connection = <<>> THEN [a |-> a, err |-> "ConnectionError", rowcount |-> -1]
    ELSE The({ IF x.err = ""
               THEN [a |-> adapter_commit([a EXCEPT !.connection = <<x.cn>>]),
                     err |-> "", rowcount |-> x.rowcount]
               ELSE [a |-> [a EXCEPT !.connection = <<x.cn>>],
                     err |-> x.err, rowcount |-> -1]
               : x \in {sqlite_execute(a.connection[1], a.database, stmt)} })

\* PostgreSQLAdapter.execute_update
PostgreSQLAdapter_execute_update(a, stmt) ==
    IF a.connection = <<>> THEN [a |-> a, err |-> "ConnectionError", rowcount |-> -1]
    ELSE The({ IF x.err = ""
               THEN [a |-> adapter_commit([a EXCEPT !.connection = <<x.cn>>]),
                     err |-> "", rowcount |-> x.rowcount]
               ELSE [a |-> adapter_rollback([a EXCEPT !.connection = <<x.cn>>]),
                     err |-> x.err, rowcount |-> -1]
               : x \in {postgresql_execute(a.connection[1], a.database, stmt)} })

\* MySQLAdapter.execute_update
MySQLAdapter_execute_update(a, stmt) ==
    IF a.connection = <<>> THEN [a |-> a, err |-> "ConnectionError", rowcount |-> -1]
    ELSE The({ IF x.err = ""
               THEN [a |-> adapter_commit([a EXCEPT !.connection = <<x.cn>>]),
                     err |-> "", rowcount |-> x.rowcount]
               ELSE [a |-> adapter_rollback([a EXCEPT !.connection = <<x.cn>>]),
                     err |-> x.err, rowcount |-> -1]
               : x \in {mysql_execute(a.connection[1], a.database, stmt)} })

execute_update(a, stmt) ==
    IF a.engine = "sqlite" THEN SQLiteAdapter_execute_update(a, stmt)
    ELSE IF a.engine = "postgresql" THEN PostgreSQLAdapter_execute_update(a, stmt)
    ELSE MySQLAdapter_execute_update(a, stmt)

\* execute_query on the three adapters: no commit and no rollback
execute_query(a, stmt) ==
    IF a.connection = <<>> THEN [a |-> a, err |-> "ConnectionError"]
    ELSE The({ [a |-> [a EXCEPT !.connection = <<x.cn>>], err |-> x.err]
               : x \in {engine_execute(a.engine, a.connection[1], a.database, stmt)} })

InitAD ==
    /\ db = [real |-> Store(FALSE, {}), honeypot |-> Store(FALSE, {}),
             app |-> Store(TRUE, SeedRows)]
    /\ logs = <<>>
    /\ query_history = <<>>
    /\ fakeGen = 0
    /\ ncalls = 0
    /\ last = NoCall
    /\ ac = NoCall
    /\ NoApp

\* adapter = SQLiteAdapter(config) | PostgreSQLAdapter(config) | MySQLAdapter(config)
ADCreate ==
    /\ adapter.engine = "none"
    /\ \E e \in AdapterEngines :
          adapter' = [engine |-> e, connection |-> <<>>, database |-> {1}]
    /\ last' = [kind |-> "create"]
    /\ UNCHANGED <<db, logs, query_history, fakeGen, ncalls, ac, appVars, exceptAdapter>>

\* adapter.connect()
ADConnect ==
    /\ adapter.engine # "none"
    /\ adapter.connection = <<>>
    /\ adapter' = [adapter EXCEPT !.connection = <<NewConnection>>]
    /\ last' = [kind |-> "connect"]
    /\ UNCHANGED <<db, logs, query_history, fakeGen, ncalls, ac, appVars, exceptAdapter>>

\* adapter.disconnect(): closing discards an open transaction
ADDisconnect ==
    /\ adapter.engine # "none"
    /\ adapter.connection # <<>>
    /\ adapter' = [adapter EXCEPT !.connection = <<>>]
    /\ last' = [kind |-> "disconnect"]
    /\ UNCHANGED <<db, logs, query_history, fakeGen, ncalls, ac, appVars, exceptAdapter>>

\* adapter.execute_query("SELECT * FROM t")
ADExecuteQuery ==
    /\ adapter.engine # "none"
    /\ ncalls < MaxCalls
    /\ \E r \in {execute_query(adapter, U_Select)} :
          /\ adapter' = r.a
          /\ last' = [kind |-> "execute_query", stmt |-> U_Select, err |-> r.err,
                      rowcount |-> -1, a0 |-> adapter]
    /\ ncalls' = ncalls + 1
    /\ UNCHANGED <<db, logs, query_history, fakeGen, ac, appVars, exceptAdapter>>

\* adapter.execute_update(query)
ADExecuteUpdate ==
    /\ adapter.engine # "none"
    /\ ncalls < MaxCalls
    /\ \E stmt \in AdapterUpdates :
          \E r \in {execute_update(adapter, stmt)} :
             /\ adapter' = r.a
             /\ last' = [kind |-> "execute_update", stmt |-> stmt, err |-> r.err,
                         rowcount |-> r.rowcount, a0 |-> adapter]
    /\ ncalls' = ncalls + 1
    /\ UNCHANGED <<db, logs, query_history, fakeGen, ac, appVars, exceptAdapter>>

NextAD == ADCreate \/ ADConnect \/ ADDisconnect \/ ADExecuteQuery \/ ADExecuteUpdate

SpecAD == InitAD /\ [][NextAD]_vars

(***************************************************************************)
(* security/injection_detector.py: score_sql_risk as a function of the     *)
(* indicators a query holds.  The queries are a plain SELECT followed by   *)
(* any choice of fragments, each of which brings indicators of its own.    *)
(***************************************************************************)
Fragments ==
    << <<";">>,
       <<"UNION", "SELECT", "1">>,
       <<"OR", "1", "=", "1">>,
       <<"AND", "'", "2", "'", "=", "'", "2", "'">>,
       <<"INFORMATION_SCHEMA">>,
       <<"CHAR(", "65", ")">>,
       <<"0xdeadbeef">> >>

RECURSIVE WithFragments(_, _)
\* the fragments chosen in S, from the i-th on, in order
WithFragments(i, S) ==
    IF i > Len(Fragments) THEN <<>>
    ELSE (IF i \in S THEN Fragments[i] ELSE <<>>) \o WithFragments(i + 1, S)
ScoredQueries ==
    {<<>>} \cup {Q_SelectAll \o WithFragments(1, S) : S \in SUBSET (1..Len(Fragments))}

\* which of the things score_sql_risk adds for are present in a query
Indicators(query) ==
    (IF \E i \in 1..Len(query) : query[i] = ";" THEN {<<"semicolon", 0>>} ELSE {})
    \cup {<<"strong", k>> : k \in {j \in 1..Len(_STRONG_PATTERNS) :
                                     StrongMatch(j, UpperSeq(query))}}
    \cup {<<"weak", k>> : k \in {j \in 1..Len(_WEAK_PATTERNS) :
                                   WeakMatch(j, UpperSeq(query))}}
    \cup (IF KwNumEq(UpperSeq(query), "OR") THEN {<<"always-true OR", 0>>} ELSE {})

InitSR ==
    /\ db = [real |-> Store(FALSE, {}), honeypot |-> Store(FALSE, {}),
             app |-> Store(TRUE, SeedRows)]
    /\ logs = <<>>
    /\ query_history = <<>>
    /\ fakeGen = 0
    /\ ncalls = 0
    /\ last = NoCall
    /\ ac \in {[kind |-> "args", q1 |-> a, q2 |-> b] : a, b \in ScoredQueries}
    /\ NoApp

\* score_sql_risk(q1), score_sql_risk(q2)
ScoreSqlRisk ==
    /\ ac.kind = "args"
    /\ ac' = [kind |-> "scored", q1 |-> ac.q1, q2 |-> ac.q2,
              s1 |-> score_sql_risk(ac.q1), s2 |-> score_sql_risk(ac.q2)]
    /\ UNCHANGED <<db, logs, query_history, fakeGen, ncalls, last, appVars, compVars>>

NextSR == ScoreSqlRisk

SpecSR == InitSR /\ [][NextSR]_vars

(***************************************************************************)
(* core/firewall.py and core/honeypot.py with several threads calling      *)
(* execute_query on one orchestrator (the network proxy runs one thread    *)
(* per client and direction).  Nothing in either class is locked; sqlite    *)
(* makes each committed transaction atomic, so a thread is interleaved      *)
(* with the others between populate_fake_data and the execution of its      *)
(* own query.  thr[t] is [pc, req, gen, reason]: where thread t stands,     *)
(* its call, and which generate_users call its own repopulation made.       *)
(***************************************************************************)
HCRequests ==
    { Req("unknown_app", IP_Other, "SELECT", Q_SelectAll, 10),
      Req("unknown_app", IP_Other, "INSERT", Q_Insert9, 10),
      Req("unknown_app", IP_Other, "DELETE", Q_Delete1, 10) }

\* Honeypot.execute_query from the statement after populate_fake_data on
hp_query(w, query) ==
    The({
    IF r.err # "" THEN [w |-> r.w, rows |-> <<>>]
    ELSE IF FirstWord(query) = "SELECT" THEN [w |-> r.w, rows |-> fetchall(r.cur)]
    ELSE [w |-> Commit(r.w, r.conn), rows |-> <<>>]
    : r \in {cur_execute(w, NoWrapper, 0, {}, Connect("honeypot"), NewCursor, query, <<>>)} })

InitHC ==
    /\ db = Constructed([real |-> Store(FALSE, {}), honeypot |-> Store(FALSE, {}),
                         app |-> Store(TRUE, SeedRows)])
    /\ logs = <<>>
    /\ query_history = <<>>
    /\ fakeGen = 0
    /\ ncalls = 0
    /\ last = NoCall
    /\ ac = NoCall
    /\ NoApp

\* thread t enters execute_query with a call that is denied: log_intrusion,
\* send_alert, and the populate_fake_data call of Honeypot.execute_query
HCPopulate(t) ==
    /\ thr[t].pc = "idle"
    /\ ncalls < MaxCalls
    /\ \E rq \in HCRequests :
          \E d2 \in {<<detect_sql_injection(rq.query),
                       is_authorized(rq.app_id, rq.ip, rq.operation, rq.hour)>>} :
             /\ ~(d2[2][1] /\ ~d2[1][1])
             /\ \E reason \in {IF d2[1][1] THEN d2[1][2] ELSE d2[2][2]} :
                \E p \in {populate_fake_data(
                             log_intrusion(World, rq.app_id, rq.ip, rq.operation, rq.query,
                                           reason),
                             NoWrapper, 0, {})} :
                   /\ db' = p.w.db
                   /\ logs' = p.w.logs
                   /\ fakeGen' = p.w.fakeGen
                   /\ thr' = [thr EXCEPT ![t] =
                                IF p.err # "" THEN [pc |-> "idle"]
                                ELSE [pc |-> "populated", req |-> rq, gen |-> p.w.fakeGen,
                                      reason |-> reason]]
                   /\ last' = [kind |-> "hc_populate", thread |-> t, raised |-> p.err # ""]
    /\ ncalls' = ncalls + 1
    /\ UNCHANGED <<query_history, ac, appVars, exceptThr>>

\* thread t goes on: the honeypot runs its query, log_query, return
HCQuery(t) ==
    /\ thr[t].pc = "populated"
    /\ \E r \in {hp_query(World, thr[t].req.query)} :
          \E w2 \in {log_query(r.w, thr[t].req.app_id, thr[t].req.ip, thr[t].req.operation,
                               thr[t].req.query, FALSE, thr[t].reason)} :
             /\ db' = w2.db
             /\ query_history' = w2.query_history
             /\ last' = [kind |-> "hc_execute_query", thread |-> t, req |-> thr[t].req,
                         gen |-> thr[t].gen, authorized |-> FALSE, rows |-> r.rows,
                         reason |-> thr[t].reason]
    /\ thr' = [thr EXCEPT ![t] = [pc |-> "idle"]]
    /\ UNCHANGED <<logs, fakeGen, ncalls, ac, appVars, exceptThr>>

NextHC == \E t \in Threads : HCPopulate(t) \/ HCQuery(t)

SpecHC == InitHC /\ [][NextHC]_vars

(***************************************************************************)
(* database_protection/proxy_server.py: handle_client and its two relay    *)
(* threads, step by step.  relay is [handler, client_to_server,            *)
(* server_to_client, client_socket, target_socket, client_peer,            *)
(* server_peer, from_client, from_server, ip]: where handle_client and the *)
(* threads stand, the proxy's two sockets, whether the peer of each has    *)
(* closed its end, and the chunks a peer has sent that recv has not yet    *)
(* returned.  recv (no timeout is set) returns the next chunk, returns b'' *)
(* once the peer has closed and nothing is pending, and blocks otherwise;  *)
(* sendall to a peer that has closed may still succeed or raise.           *)
(***************************************************************************)
RTChunks ==
    {Chunk("Q", FALSE, TRUE, <<>>, q) : q \in {Q_SelectAll, Q_Inj}}
    \cup {Chunk("X", FALSE, TRUE, <<>>, <<>>)}

\* what destination.sendall(data) can do: return (TRUE) or raise (FALSE)
SendOutcomes(peer) == IF peer = "closed" THEN {TRUE, FALSE} ELSE {TRUE}

InitRT ==
    /\ db = Constructed([real |-> Store(FALSE, {}), honeypot |-> Store(FALSE, {}),
                         app |-> Store(TRUE, SeedRows)])
    /\ logs = <<>>
    /\ query_history = <<>>
    /\ fakeGen = 0
    /\ ncalls = 0
    /\ last = NoCall
    /\ ac = NoCall
    /\ NoApp

\* handle_client up to the two join calls: connect to the target (which may
\* fail, and then the finally block closes at once), start both relays
RTAccept ==
    /\ relay.handler = "none"
    /\ \E ip \in PXIps, connected \in BOOLEAN :
          relay' = IF connected
                   THEN [relay EXCEPT !.handler = "joining", !.ip = ip,
                                      !.client_to_server = "running",
                                      !.server_to_client = "running",
                                      !.client_socket = "open", !.target_socket = "open"]
                   ELSE [relay EXCEPT !.handler = "closed", !.ip = ip,
                                      !.client_socket = "closed",
                                      !.target_socket = "closed"]
    /\ UNCHANGED <<db, logs, query_history, fakeGen, ncalls, last, ac, appVars, exceptRelay>>

\* the client sends a chunk
RTClientSend ==
    /\ relay.handler = "joining"
    /\ relay.client_peer = "open"
    /\ relay.from_client = <<>>
    /\ ncalls < MaxCalls
    /\ \E data \in RTChunks : relay' = [relay EXCEPT !.from_client = <<data>>]
    /\ ncalls' = ncalls + 1
    /\ UNCHANGED <<db, logs, query_history, fakeGen, last, ac, appVars, exceptRelay>>

\* the client closes its connection
RTClientClose ==
    /\ relay.handler = "joining"
    /\ relay.client_peer = "open"
    /\ relay' = [relay EXCEPT !.client_peer = "closed"]
    /\ UNCHANGED <<db, logs, query_history, fakeGen, ncalls, last, ac, appVars, exceptRelay>>

\* the database server sends a chunk
RTServerSend ==
    /\ relay.handler = "joining"
    /\ relay.server_peer = "open"
    /\ relay.from_server = <<>>
    /\ \E data \in PXReplies : relay' = [relay EXCEPT !.from_server = <<data>>]
    /\ UNCHANGED <<db, logs, query_history, fakeGen, ncalls, last, ac, appVars, exceptRelay>>

\* the database server closes its connection
RTServerClose ==
    /\ relay.handler = "joining"
    /\ relay.server_peer = "open"
    /\ relay' = [relay EXCEPT !.server_peer = "closed"]
    /\ UNCHANGED <<db, logs, query_history, fakeGen, ncalls, last, ac, appVars, exceptRelay>>

\* relay_and_intercept(client_socket, target_socket, client_address, True):
\* one turn of the loop, from recv returning to the next recv or to the end
\* of the thread
RTClientToServer ==
    /\ relay.client_to_server = "running"
    /\ relay.from_client # <<>> \/ relay.client_peer = "closed"
    /\ IF relay.from_client = <<>>
       THEN \* recv returned b'': break
            /\ relay' = [relay EXCEPT !.client_to_server = "ended"]
            /\ UNCHANGED <<db, logs, query_history, fakeGen>>
       ELSE \E data \in {relay.from_client[1]}, hour \in {10} :
            \E query \in {extract_postgresql_query(data)} :
               IF query = <<>>
               THEN /\ \E sent \in SendOutcomes(relay.server_peer) :
                          relay' = [relay EXCEPT !.from_client = <<>>,
                                       !.client_to_server = IF sent THEN "running"
                                                            ELSE "ended"]
                    /\ UNCHANGED <<db, logs, query_history, fakeGen>>
               ELSE \E r \in {fw_execute_query(World, NoWrapper, 0, {}, ProxyAppId(relay.ip),
                                               relay.ip, detect_operation(query), query,
                                               hour)} :
                       /\ db' = r.w.db
                       /\ logs' = r.w.logs
                       /\ query_history' = r.w.query_history
                       /\ fakeGen' = r.w.fakeGen
                       /\ \E sent \in SendOutcomes(relay.server_peer) :
                             relay' = [relay EXCEPT !.from_client = <<>>,
                                          !.client_to_server =
                                              IF r.err # "" THEN "ended"
                                              ELSE IF ~r.auth THEN "running"
                                              ELSE IF sent THEN "running" ELSE "ended"]
    /\ UNCHANGED <<ncalls, last, ac, appVars, exceptRelay>>

\* relay_and_intercept(target_socket, client_socket, client_address, False):
\* one turn of the loop
RTServerToClient ==
    /\ relay.server_to_client = "running"
    /\ relay.from_server # <<>> \/ relay.server_peer = "closed"
    /\ IF relay.from_server = <<>>
       THEN relay' = [relay EXCEPT !.server_to_client = "ended"]
       ELSE \E sent \in SendOutcomes(relay.client_peer) :
               relay' = [relay EXCEPT !.from_server = <<>>,
                            !.server_to_client = IF sent THEN "running" ELSE "ended"]
    /\ UNCHANGED <<db, logs, query_history, fakeGen, ncalls, last, ac, appVars, exceptRelay>>

\* handle_client: both join calls have returned, the finally block closes
\* both sockets
RTJoined ==
    /\ relay.handler = "joining"
    /\ relay.client_to_server = "ended"
    /\ relay.server_to_client = "ended"
    /\ relay' = [relay EXCEPT !.handler = "closed", !.client_socket = "closed",
                              !.target_socket = "closed"]
    /\ UNCHANGED <<db, logs, query_history, fakeGen, ncalls, last, ac, appVars, exceptRelay>>

NextRT == RTAccept \/ RTClientSend \/ RTClientClose \/ RTServerSend \/ RTServerClose
             \/ RTClientToServer \/ RTServerToClient \/ RTJoined

SpecRT == InitRT /\ [][NextRT]_vars

\* the client-to-server relay has a turn of its loop to take: recv returns
RTClientToServerReady ==
    /\ relay.client_to_server = "running"
    /\ relay.from_client # <<>> \/ relay.client_peer = "closed"

\* the proxy's threads are scheduled whenever they can run; nothing obliges
\* the client or the database server to send or to close.  The first
\* conjunct is weak fairness of RTClientToServer, written with the condition
\* under which that step is enabled.
SpecRTFair ==
    /\ SpecRT
    /\ ([]<>~RTClientToServerReady \/ []<><<RTClientToServer>>_vars)
    /\ WF_vars(RTServerToClient) /\ WF_vars(RTJoined)

(***************************************************************************)
(* main.py and security/firewall.py: the orchestrator with manually        *)
(* registered time windows.  The two files differ in register_authorized_  *)
(* access (replace / append), in the window test (start <= hour < end on   *)
(* hours / start <= now <= end on times of day), in the seeded users and   *)
(* in the number of honeypot rows; variant tells which file runs.  Times   *)
(* are whole hours.  access_log is kept in logs.                           *)
(***************************************************************************)
MRApps == {"billing_app", "ghost_app"}
MRWindows == {<< <<9, 17>> >>}
MRHours == {8, 9, 17}
MRStatements ==
    { <<"SELECT", Q_SelectAll>>, <<"SELECT", Q_Inj>>, <<"DELETE", Q_Delete1>> }
MaxSchedCalls == 2
MRIps == {IP_Admin, IP_Other}

\* DatabaseFirewall._init_real_database of either file
mr_init_real_database(variant) ==
    IF variant = "main"
    THEN InsertUser(InsertUser(InsertUser(Store(TRUE, {}), "admin"), "john_doe"),
                    "jane_smith")
    ELSE InsertUser(InsertUser(Store(TRUE, {}), "admin"), "alice")

\* DatabaseFirewall.register_authorized_access
register_authorized_access(schedule, variant, app_id, time_windows) ==
    [a \in DOMAIN schedule \cup {app_id} |->
        IF a # app_id THEN schedule[a]
        ELSE IF variant = "main" \/ a \notin DOMAIN schedule THEN time_windows
        ELSE schedule[a] \o time_windows]

\* DatabaseFirewall._is_access_authorized
_is_access_authorized(schedule, variant, app_id, current_hour) ==
    IF app_id \notin DOMAIN schedule THEN FALSE
    ELSE \E i \in 1..Len(schedule[app_id]) :
            /\ schedule[app_id][i][1] <= current_hour
            /\ IF variant = "main" THEN current_hour < schedule[app_id][i][2]
               ELSE current_hour <= schedule[app_id][i][2]

\* DatabaseFirewall._log_intrusion
mr_log_intrusion(w, app_id, ip, operation, query) ==
    [w EXCEPT !.logs = Append(@, [app_id |-> app_id, ip_address |-> ip,
                                  operation |-> operation, query |-> query,
                                  action |-> "REDIRECTED_TO_HONEYPOT"])]

\* DatabaseFirewall._populate_honeypot
_populate_honeypot(w, variant) ==
    The({
    The({ [w |-> Commit(r2.w, r2.conn), err |-> r2.err]
          : r2 \in {raw_executemany([r1.w EXCEPT !.fakeGen = @ + 1], {}, r1.conn, r1.cur,
                                    Q_PopulateInsert,
                                    generate_users(IF variant = "main" THEN 3 ELSE 5,
                                                   r1.w.fakeGen + 1))} })
    : r1 \in {raw_execute(w, {}, Connect("honeypot"), NewCursor, Q_DeleteAll, <<>>)} })

\* cursor.execute(query) and what follows it, on the database named
mr_run(w, name, operation, query, authorized) ==
    The({
    IF r.err # ""
    THEN [w |-> r.w, err |-> r.err, auth |-> authorized, rows |-> <<>>, path |-> name]
    ELSE IF Upper(operation) \in WriteOps
    THEN [w |-> Commit(r.w, r.conn), err |-> "", auth |-> authorized, rows |-> <<>>,
          path |-> name]
    ELSE [w |-> r.w, err |-> "", auth |-> authorized, rows |-> r.cur.res, path |-> name]
    : r \in {raw_execute(w, {}, Connect(name), NewCursor, query, <<>>)} })

\* execute_query with the Injection Detector of the policy-table orchestrator
\* wired in
mr_execute_query_injection_aware(w, schedule, variant, app_id, ip, operation, query, hour) ==
    IF _is_access_authorized(schedule, variant, app_id, hour)
          /\ ~detect_sql_injection(query)[1]
    THEN mr_run(w, "real", operation, query, TRUE)
    ELSE The({ mr_run(p.w, "honeypot", operation, query, FALSE)
               : p \in {_populate_honeypot(
                           mr_log_intrusion(w, app_id, ip, operation, query), variant)} })

\* DatabaseFirewall.execute_query
mr_execute_query(w, schedule, variant, app_id, ip, operation, query, hour) ==
    IF _is_access_authorized(schedule, variant, app_id, hour)
    THEN mr_run(w, "real", operation, query, TRUE)
    ELSE The({ mr_run(p.w, "honeypot", operation, query, FALSE)
               : p \in {_populate_honeypot(
                           mr_log_intrusion(w, app_id, ip, operation, query), variant)} })

InitMR ==
    /\ \E variant \in {"main", "security"} :
          /\ db = [real |-> mr_init_real_database(variant), honeypot |-> Store(TRUE, {}),
                   app |-> Store(TRUE, SeedRows)]
          /\ last = [kind |-> "mr_construct", variant |-> variant]
    /\ logs = <<>>
    /\ query_history = <<>>
    /\ fakeGen = 0
    /\ ncalls = 0
    /\ ac = NoCall
    /\ NoApp

\* firewall.register_authorized_access(app_id, windows)
MRRegister ==
    /\ \E app_id \in {"billing_app"}, time_windows \in MRWindows :
          authorized_schedule' =
              register_authorized_access(authorized_schedule, last.variant, app_id,
                                         time_windows)
    /\ Len(authorized_schedule'["billing_app"]) <= 2
    /\ last' = [kind |-> "mr_register", variant |-> last.variant]
    /\ UNCHANGED <<db, logs, query_history, fakeGen, ncalls, ac, appVars, exceptSchedule>>

\* firewall.execute_query(app_id, ip_address, operation, query), the clock
\* showing the given hour; prev is the call made just before, if any
MRExecute ==
    /\ ncalls < MaxSchedCalls
    /\ \E app_id \in MRApps, ip \in MRIps, st \in MRStatements, hour \in MRHours :
          \E r \in {mr_execute_query(World, authorized_schedule, last.variant, app_id, ip,
                                     st[1], st[2], hour)} :
             /\ db' = r.w.db
             /\ logs' = r.w.logs
             /\ fakeGen' = r.w.fakeGen
             /\ last' = [kind |-> "mr_execute_query", variant |-> last.variant,
                         app_id |-> app_id, ip |-> ip, operation |-> st[1],
                         query |-> st[2], hour |-> hour,
                         schedule |-> authorized_schedule,
                         raised |-> r.err # "", authorized |-> r.auth, rows |-> r.rows,
                         path |-> r.path, db0 |-> db, nlogs0 |-> Len(logs),
                         prev |-> IF last.kind = "mr_execute_query"
                                  THEN [last EXCEPT !.prev = NoCall, !.db0 = NoCall,
                                                    !.rows = <<>>]
                                  ELSE NoCall]
    /\ ncalls' = ncalls + 1
    /\ UNCHANGED <<query_history, ac, appVars, compVars>>

NextMR == MRRegister \/ MRExecute

SpecMR == InitMR /\ [][NextMR]_vars

(***************************************************************************)
(* Properties                                                               *)
(***************************************************************************)
Called == last.kind = "execute_query"
Denied == Called /\ ~(last.allowed[1] /\ ~last.flagged)
Allowed == Called /\ last.allowed[1] /\ ~last.flagged

\* C1: execute_query sends the query to the real store exactly when
\* is_authorized allows the call and detect_sql_injection does not flag the
\* query, and then what it returns has authorized = TRUE; in every other case
\* the real store is left alone, the query goes to the honeypot store only
\* and the call returns authorized = FALSE.
C1_RealIffAllowedAndClean ==
    Called =>
        IF last.allowed[1] /\ ~last.flagged
        THEN last.path = "real" /\ (~last.raised => last.authorized)
        ELSE /\ last.path = "honeypot"
             /\ db["real"] = last.db0["real"]
             /\ ~last.raised /\ ~last.authorized

\* C2: every execute_query call appends exactly one entry to query_history,
\* and every denied call appends exactly one entry to logs as well.
C2_OneHistoryEntryPerCall ==
    Called =>
        /\ Len(query_history) = last.nhist0 + 1
        /\ Denied => Len(logs) = last.nlogs0 + 1

\* C3: a denied execute_query never raises: it returns (False, rows, reason),
\* whatever calls came before it.
C3_DenialNeverRaises ==
    Denied => ~last.raised /\ ~last.authorized

\* C8: whenever Honeypot.execute_query runs, the honeypot users table holds,
\* before the diverted query is executed, exactly the 5 rows with ids 1..5
\* generated by this call and nothing left by earlier calls.
C8_HoneypotFullyReplaced ==
    Denied =>
        /\ last.snap.tbl
        /\ last.snap.rows = {[id |-> i, username |-> "fake", gen |-> last.gen0 + 1] : i \in 1..5}

\* C9: admin_panel from 192.168.1.100 inside its window, operation DELETE,
\* statement DELETE FROM users WHERE id=1: the call is authorized, the row is
\* deleted from the real store (committed) and the result set is empty.
C9_AdminDeleteCommitted ==
    (Called /\ last.req = Req("admin_panel", IP_Admin, "DELETE", Q_Delete1, 10)) =>
        /\ ~last.raised /\ last.authorized
        /\ last.rows = <<>>
        /\ \A r \in db["real"].rows : r.id # 1

AcDone == ac.kind = "is_authorized"
StarApps == {"fastapi_app", "flask_app", "django_app"}

\* the policy table of the specification, written out per application
PolicyHours(a) ==
    CASE a = "webapp_frontend" -> 9..16
      [] a = "backup_service"  -> 2..3
      [] OTHER                 -> 0..22

PolicyOps(a) ==
    CASE a = "webapp_frontend" -> {"SELECT", "select", "INSERT", "UPDATE"}
      [] a = "backup_service"  -> {"SELECT", "select"}
      [] a = "admin_panel"     -> {"SELECT", "select", "INSERT", "UPDATE", "DELETE", "delete"}
      [] a = "shop_api"        -> {"SELECT", "select", "INSERT", "UPDATE", "DELETE", "delete"}
      [] a = "demo_app"        -> {"SELECT", "select", "INSERT", "UPDATE", "DELETE", "delete",
                                   "CREATE"}
      [] a = "django_app"      -> {"SELECT", "select", "INSERT", "UPDATE", "DELETE", "delete"}
      [] OTHER                 -> {"SELECT", "select", "INSERT", "UPDATE"}

PolicyIps(a) ==
    CASE a = "webapp_frontend" -> {IP_Admin, IP_Lan}
      [] a = "backup_service"  -> {IP_Backup}
      [] a = "admin_panel"     -> {IP_Admin}
      [] a = "shop_api"        -> {IP_Loop4, IP_Loop6, IP_Loop6c}
      [] a = "demo_app"        -> {IP_Loop4, IP_Loop6, IP_Loop6c}
      [] OTHER                 -> {}

PolicyApps == {"webapp_frontend", "backup_service", "admin_panel", "shop_api", "demo_app",
               "fastapi_app", "flask_app", "django_app"}

\* C5: is_authorized answers with the first failing check in the order
\* unknown application, time window, operation (case-insensitive), IP
\* whitelist, and with (True, 'Authorized') only when all four pass.  (What a
\* '*' whitelist entry matches is left open here: it is the subject of C6.)
C5_FirstFailureWins ==
    AcDone =>
        IF ac.app_id \notin PolicyApps
        THEN ac.out = <<FALSE, "Unknown application">>
        ELSE IF ac.hour \notin PolicyHours(ac.app_id)
        THEN ac.out = <<FALSE, "Outside authorized time window">>
        ELSE IF ac.operation \notin PolicyOps(ac.app_id)
        THEN ac.out = <<FALSE, "Unauthorized operation">>
        ELSE IF ac.app_id \in StarApps
        THEN ac.out \in {<<FALSE, "IP not whitelisted">>, <<TRUE, "Authorized">>}
        ELSE IF ac.ip \notin PolicyIps(ac.app_id)
        THEN ac.out = <<FALSE, "IP not whitelisted">>
        ELSE ac.out = <<TRUE, "Authorized">>

\* reached: a call failing both the time and the operation check is answered
\* with the time-window reason
C5_Witness ==
    /\ AcDone /\ ac.app_id = "backup_service" /\ ac.hour = 10 /\ ac.operation = "delete"
    /\ ac.out = <<FALSE, "Outside authorized time window">>

\* C6: an application whose whitelist holds the entry '*' is never denied
\* with 'IP not whitelisted', whatever (well-formed) address the call comes from.
C6_StarMatchesEveryIp ==
    (AcDone /\ ac.app_id \in StarApps /\ ac.ip \notin {IP_Bad, IP_Zero}) =>
        ac.out[2] # "IP not whitelisted"

\* C7: with application, IP and operation passing their checks, the call is
\* authorized exactly when start <= hour < end for a configured window, and
\* is otherwise denied with 'Outside authorized time window'; for
\* webapp_frontend (window 9-17) that is hours 9..16.
C7_TimeWindowHalfOpen ==
    (AcDone /\ ac.app_id \in PolicyApps /\ ac.operation \in PolicyOps(ac.app_id)
            /\ ac.ip \in PolicyIps(ac.app_id)) =>
        LET inside == \E i \in 1..Len(AUTHORIZED_APPS[ac.app_id].time_windows) :
                         LET win == AUTHORIZED_APPS[ac.app_id].time_windows[i]
                         IN win[1] <= ac.hour /\ ac.hour < win[2]
        IN /\ ac.out = IF inside THEN <<TRUE, "Authorized">>
                       ELSE <<FALSE, "Outside authorized time window">>
           /\ ac.app_id = "webapp_frontend" => (ac.out[1] <=> ac.hour \in 9..16)

\* reached: webapp_frontend is denied at the end hour of its window
C7_Witness ==
    /\ AcDone /\ ac.app_id = "webapp_frontend" /\ ac.ip = IP_Lan /\ ac.operation = "SELECT"
    /\ ac.hour = 17 /\ ac.out = <<FALSE, "Outside authorized time window">>

SCExecuted == last.kind = "sc_execute"
SCFetches == {"sc_fetchone", "sc_fetchall", "sc_fetchmany"}
Synthetic(rows) == \A i \in 1..Len(rows) : rows[i].gen > 0

\* C10: when the orchestrator authorizes the substituted text, the real
\* cursor executes the original parameterized call and the honeypot cache is
\* cleared; when it denies, the real cursor executes nothing, the honeypot
\* rows are cached and OperationalError is raised; a fetch after a denied
\* execute serves the cached honeypot rows, and a fetch after an authorized
\* execute on the same cursor is the real cursor's.
C10_SecureCursorContract ==
    /\ (SCExecuted /\ last.fw = "authorized") =>
          /\ cur.ran = Append(last.cur0.ran, <<last.query, last.params>>)
          /\ ~cur.hp.set
    /\ (SCExecuted /\ last.fw = "denied") =>
          /\ cur.ran = last.cur0.ran
          /\ cur.hp.set /\ Synthetic(cur.hp.rows)
          /\ last.err = "OperationalError"
    /\ (last.kind \in SCFetches /\ handle.lastExec = "denied") =>
          /\ cur = last.cur0
          /\ last.out = CASE last.kind = "sc_fetchall" -> cur.hp.rows
                          [] last.kind = "sc_fetchone" -> Take(cur.hp.rows, 1)
                          [] OTHER -> Take(cur.hp.rows, last.size)
    /\ (last.kind \in SCFetches /\ handle.lastExec = "authorized") =>
          /\ last.out = CASE last.kind = "sc_fetchall" -> last.cur0.res
                          [] last.kind = "sc_fetchone" -> Take(last.cur0.res, 1)
                          [] OTHER -> Take(last.cur0.res, last.size)
          /\ ~Synthetic(last.out) \/ last.out = <<>>

TWDenied ==
    /\ last.kind \in {"tc_execute", "tc_fetchall"}
    /\ last.wrapped /\ last.protected
    /\ ~(last.allowed /\ ~last.flagged)

\* C4: with the transparent wrapper installed and protection enabled, an
\* execute of a statement the orchestrator's rules deny returns without
\* raising, leaves the real cursor untouched, and the fetchall that follows
\* returns honeypot rows and no real row.
C4_DeniedNeverReachesRealCursor ==
    /\ (TWDenied /\ last.kind = "tc_execute") =>
          /\ ~last.raised
          /\ cur.ran = last.cur0.ran
          /\ cur.hp.set
    /\ (TWDenied /\ last.kind = "tc_fetchall") => Synthetic(last.out)

\* C11: whatever sequence of install, uninstall, enable, disable and
\* set_app_id has run, sqlite3.connect is the wrapped function exactly when
\* the installed flag is set and is_protection_enabled() is true exactly
\* when the installed and the enforcement flag are both set; enable and
\* disable change nothing but the enforcement flag.
C11_WrapperSwitches ==
    /\ [](/\ (g.connect = "wrapped") <=> g.installed
          /\ is_protection_enabled(g) <=> (g.installed /\ g.enabled))
    /\ [][(enable_protection \/ disable_protection) =>
             /\ g'.installed = g.installed /\ g'.fw = g.fw
             /\ g'.app_id = g.app_id /\ g'.connect = g.connect]_vars

\* reached: the wrapper was uninstalled and protection enabled afterwards
C11_Witness ==
    /\ g.fw /\ ~g.installed /\ g.enabled /\ g.connect = "original"
    /\ ~is_protection_enabled(g)

\* C12: on a WrappedCursor, whatever was executed on it before, a statement
\* scoring below 0.6 runs on the real connection and a statement scoring at
\* least 0.6 runs on the honeypot connection, or on the real one when the
\* honeypot execution failed; the fetchall that follows reads from the
\* database the statement ran on.
C12_ScoreDecidesTarget ==
    /\ (last.kind = "wc_execute" /\ last.score < Threshold) =>
          /\ last.target = "real"
          /\ cur.ran = Append(last.cur0.ran, <<last.query, last.params>>)
    /\ (last.kind = "wc_execute" /\ last.score >= Threshold) =>
          IF last.failed
          THEN /\ last.target = "real"
               /\ cur.ran = Append(last.cur0.ran, <<last.query, last.params>>)
          ELSE last.target = "honeypot" /\ cur.ran = last.cur0.ran
    /\ (last.kind = "wc_fetchall" /\ last.score < Threshold) =>
          \A i \in 1..Len(last.out) : last.out[i].gen = 0

\* C13: when the orchestrator denies a query taken from a client chunk, the
\* proxy writes nothing to the database server's socket, writes exactly one
\* 'E' frame (length = payload + 4, payload = prefix, reason, NUL) to the
\* client's socket, and the relay goes on.
C13_DeniedChunkAnsweredToClient ==
    (last.kind = "client_data" /\ last.checked /\ ~last.raised /\ ~last.authorized) =>
       /\ net.to_server = last.net0.to_server
       /\ net.to_client = Append(last.net0.to_client, ErrorFrame(last.reason))
       /\ net.relaying

GuardChecked ==
    /\ last.kind \in {"execute", "executemany"}
    /\ ~last.g0.proxy.closed

\* C14: a statement holding one of the ten blocked substrings, in any letter
\* case, is denied by the pattern scan: the call raises and the audit row
\* written for it is a 'blocked' row naming a pattern.
C14_BlockedSubstringsDenied ==
    (/\ GuardChecked
     /\ \E i \in 1..Len(_blocked_patterns) :
           Contains(upper(_blocked_patterns[i]), upper(last.sql))) =>
       /\ last.err = "Access denied by database guardian"
       /\ guard.real = last.g0.real
       /\ Len(guard.access_logs) = Len(last.g0.access_logs) + 1
       /\ guard.access_logs[Len(guard.access_logs)].result = "blocked"
       /\ guard.access_logs[Len(guard.access_logs)].blocked_reason
             \in {[pattern |-> _blocked_patterns[i]] : i \in 1..Len(_blocked_patterns)}

\* C15: close() logs one 'close' row and closes the wrapped connection the
\* first time and does nothing afterwards; once closed, execute, executemany,
\* cursor, commit and rollback raise 'Cannot operate on a closed database.'
\* and leave the audit log and the wrapped connection as they were.
C15_CloseIdempotent ==
    /\ (last.kind = "close" /\ ~last.g0.proxy.closed) =>
          /\ guard.proxy.closed /\ ~guard.real.open
          /\ guard.real.calls = Append(last.g0.real.calls, [method |-> "close", args |-> <<>>])
          /\ guard.access_logs =
                Append(last.g0.access_logs,
                       [app_id |-> guard.proxy.app_id, ip |-> guard.proxy.ip,
                        operation |-> "close", sql |-> <<>>, result |-> "success",
                        blocked_reason |-> "None"])
    /\ (last.kind = "close" /\ last.g0.proxy.closed) => guard = last.g0
    /\ (/\ last.kind \in {"execute", "executemany", "cursor", "commit", "rollback"}
        /\ last.g0.proxy.closed) =>
          /\ last.err = Closed
          /\ guard = last.g0
C15_Witness ==
    /\ last.kind = "close" /\ last.g0.proxy.closed
    /\ Len(guard.real.calls) >= 2

\* the attempts of the analysed ip that are less than one hour old when the
\* analysis prunes, the current one included
RecentAttempts ==
    {i \in 1..(Len(last.attempts0) + 1) :
        IF i <= Len(last.attempts0)
        THEN last.attempts0[i].timestamp > last.clean_time - Hour
        ELSE last.current_time > last.clean_time - Hour}

\* C16: the level returned follows the number k of attempts of that ip within
\* the trailing hour, the current one counted (CRITICAL from 10, HIGH from 5,
\* MEDIUM from 3, LOW below), and only those attempts stay recorded.
C16_LevelByRecentAttempts ==
    last.kind = "analyze" =>
       /\ last.level = (CASE Cardinality(RecentAttempts) >= 10 -> "CRITICAL"
                          [] Cardinality(RecentAttempts) \in 5..9 -> "HIGH"
                          [] Cardinality(RecentAttempts) \in 3..4 -> "MEDIUM"
                          [] OTHER -> "LOW")
       /\ Len(threat.ip_attempts[last.ip]) = Cardinality(RecentAttempts)
       /\ \A i \in 1..Len(threat.ip_attempts[last.ip]) :
             threat.ip_attempts[last.ip][i].timestamp > last.clean_time - Hour
C16_Witness ==
    /\ last.kind = "analyze"
    /\ Len(last.attempts0) >= 9
    /\ last.level = "LOW"

\* the requests of the caller's address admitted so far whose time lies
\* within the preceding window of the handler called
AdmittedInWindow ==
    {i \in 1..Len(last.l0.handled) :
        /\ last.l0.handled[i].ip = last.ip
        /\ last.time - last.l0.handled[i].time < Decorated[last.f].window_seconds}

\* C17: a request is admitted exactly when fewer than max_requests admitted
\* requests of its address lie within the preceding window; a rejected one
\* gets 429, runs no handler and is not recorded; so no handler admits more
\* than its max_requests requests of one address within one window.
C17_SlidingWindowAdmission ==
    last.kind = "request" =>
       /\ last.admitted <=>
             Cardinality(AdmittedInWindow) < Decorated[last.f].max_requests
       /\ ~last.admitted =>
             /\ last.status = 429
             /\ limiter.handled = last.l0.handled
             /\ Len(limiter.rate_limits[last.ip]) <= Len(RequestsOf(last.l0, last.ip))
       /\ \A i \in 1..Len(limiter.handled) :
             Cardinality({j \in 1..i :
                            /\ limiter.handled[j].ip = limiter.handled[i].ip
                            /\ limiter.handled[j].f = limiter.handled[i].f
                            /\ limiter.handled[i].time - limiter.handled[j].time
                                  < Decorated[limiter.handled[i].f].window_seconds})
                <= Decorated[limiter.handled[i].f].max_requests

\* C18: a query holding DROP, TRUNCATE, ALTER or CREATE as a whole word is
\* rejected unless allow_ddl is set, and one holding EXEC, EXECUTE, GRANT,
\* REVOKE or SHUTDOWN as a whole word is rejected whatever allow_ddl is.
C18_DangerousKeywordsRejected ==
    last.kind = "validate_query" =>
       /\ (/\ ~validator.allow_ddl
           /\ \E kw \in {K_DROP, K_TRUNCATE, K_ALTER, K_CREATE} :
                 HasWord(kw, upper(last.query))) => ~last.is_valid
       /\ (\E kw \in {K_EXEC, K_EXECUTE, K_GRANT, K_REVOKE, K_SHUTDOWN} :
              HasWord(kw, upper(last.query))) => ~last.is_valid

\* C19: on each of the three adapters a failed execute_update is re-raised
\* with the transaction rolled back, nothing uncommitted left on the
\* connection; a successful one is committed and returns the affected rows.
C19_UpdateRollsBackOrCommits ==
    (last.kind = "execute_update" /\ last.a0.connection # <<>>) =>
       /\ ~adapter.connection[1].in_transaction
       /\ last.err # "" =>
             /\ adapter.database = last.a0.database
             /\ last.err # "ConnectionError"
       /\ last.err = "" =>
             /\ adapter.database = After(last.stmt, Seen(last.a0.connection[1], last.a0.database))
             /\ last.rowcount = Affected(last.stmt, Seen(last.a0.connection[1], last.a0.database))

\* C20: a query holding every indicator of another (semicolon, strong
\* patterns, weak patterns, always-true OR) scores at least as much, and no
\* score exceeds 1.0 (10 tenths).
C20_ScoreMonotoneAndCapped ==
    ac.kind = "scored" =>
       /\ Indicators(ac.q1) \subseteq Indicators(ac.q2) => ac.s1 <= ac.s2
       /\ ac.s1 <= 10 /\ ac.s2 <= 10
C20_Witness ==
    /\ ac.kind = "scored"
    /\ Indicators(ac.q1) \subseteq Indicators(ac.q2)
    /\ Indicators(ac.q1) # Indicators(ac.q2)
    /\ ac.s1 = 4 /\ ac.s2 = 10
    /\ Cardinality(Indicators(ac.q2)) >= 5


\* a query that matches weak patterns only: no semicolon, no strong pattern,
\* no always-true OR condition
WeakOnly(query) ==
    /\ query # <<>>
    /\ \A x \in Indicators(query) : x[1] = "weak"
    /\ Indicators(query) # {}

\* C21: a query that matches only weak patterns scores below the diversion
\* threshold 0.6 of the scoring-based interceptor, however many of the five
\* weak patterns it matches.
C21_WeakOnlyBelowThreshold ==
    ac.kind = "scored" /\ WeakOnly(ac.q1) => ac.s1 < Threshold


\* the applications whose policy entry carries the window (0, 23), "24/7"
AllDayApps ==
    {a \in AppIds : AUTHORIZED_APPS[a].time_windows = << <<0, 23>> >>}

\* C22: the applications documented as 24/7, with time window (0, 23), pass
\* the time-window check of is_authorized at every hour 0..23.
C22_AllDayAppsPassEveryHour ==
    (AcDone /\ ac.app_id \in AllDayApps /\ ac.hour \in 0..23) =>
        ac.out[2] # "Outside authorized time window"


C24_DeniedSelectReturnsOwnRows ==
    (last.kind = "hc_execute_query" /\ last.req.query = Q_SelectAll) =>
        /\ ~last.authorized
        /\ Len(last.rows) = NumRecords
        /\ last.rows = generate_users(NumRecords, last.gen)


\* C25: once either relay direction of a proxied connection has stopped,
\* both the client socket and the backend socket are eventually closed,
\* with no further traffic and no close from the other peer needed.
C25_BothSocketsEventuallyClosed ==
    (relay.handler = "joining"
       /\ (relay.client_to_server = "ended" \/ relay.server_to_client = "ended"))
    ~> (relay.client_socket = "closed" /\ relay.target_socket = "closed")


\* the windows registered for an application, <<>> when it has none
WindowsOf(schedule, app_id) ==
    IF app_id \in DOMAIN schedule THEN schedule[app_id] ELSE <<>>

\* C26: in the manually-registered orchestrator the authorized flag depends
\* only on the windows registered for app_id and on the current time: two
\* calls that differ only in ip_address, operation or query text get the same
\* flag; a call for an app_id without a registered window is logged as an
\* intrusion and runs on the honeypot, the real store untouched.
C26_FlagDependsOnWindowsAndTimeOnly ==
    last.kind = "mr_execute_query" =>
       /\ (/\ last.prev.kind = "mr_execute_query"
           /\ last.prev.app_id = last.app_id
           /\ last.prev.hour = last.hour
           /\ WindowsOf(last.prev.schedule, last.app_id)
                 = WindowsOf(last.schedule, last.app_id))
          => last.prev.authorized = last.authorized
       /\ WindowsOf(last.schedule, last.app_id) = <<>> =>
             /\ ~last.authorized
             /\ last.path = "honeypot"
             /\ Len(logs) = last.nlogs0 + 1
             /\ logs[Len(logs)].app_id = last.app_id
             /\ logs[Len(logs)].query = last.query
             /\ db["real"] = last.db0["real"]

\* reached: within its window an application is authorized for a plain
\* SELECT and, from another address, for the injection payload
C26_Witness ==
    /\ last.kind = "mr_execute_query" /\ last.prev.kind = "mr_execute_query"
    /\ last.prev.app_id = last.app_id /\ last.prev.hour = last.hour
    /\ last.prev.query = Q_SelectAll /\ last.query = Q_Inj
    /\ last.prev.ip # last.ip
    /\ last.prev.authorized /\ last.authorized /\ ~last.raised
    /\ Len(last.rows) = 3


\* the last execute on the wrapped cursor returned after running its
\* statement on the real cursor
TWRanDirectly ==
    /\ last.kind \in {"tc_execute", "tc_fetchall"}
    /\ last.wrapped /\ ~last.raised
    /\ cur.ran = Append(last.cur0.ran, <<last.query, last.params>>)

\* C27: on a TransparentCursor, after an execute that ran directly on the
\* real cursor (protection disabled, no firewall instance, statement
\* authorized, or fallback after the firewall raised) the fetch methods read
\* the real cursor, never honeypot rows cached by an earlier denied execute.
C27_FetchAfterDirectExecuteIsReal ==
    TWRanDirectly =>
       /\ ~cur.hp.set
       /\ last.kind = "tc_fetchall" => last.out = last.res


Blocked(history) == SelectSeq(history, LAMBDA q : q.status = "BLOCKED")
NumAllowed(history) == Len(SelectSeq(history, LAMBDA q : q.status = "ALLOWED"))
IntrusionFields(e) == <<e.app_id, e.ip_address, e.operation, e.query, e.reason>>

\* C28: after any sequence of execute_query calls on one orchestrator, logs
\* has as many entries as query_history has BLOCKED entries, the i-th
\* intrusion entry carries the app_id, ip_address, operation, query and
\* reason of the i-th BLOCKED entry, and each call adds one ALLOWED entry
\* exactly when it returned authorized = TRUE.
C28_LogsMirrorBlockedHistory ==
    /\ Len(logs) = Len(Blocked(query_history))
    /\ \A i \in 1..Len(logs) :
          i <= Len(Blocked(query_history)) =>
             IntrusionFields(logs[i]) = IntrusionFields(Blocked(query_history)[i])
    /\ Called =>
          NumAllowed(query_history) =
             NumAllowed(SubSeq(query_history, 1, last.nhist0))
             + (IF ~last.raised /\ last.authorized THEN 1 ELSE 0)


SCAuthorized == SCExecuted /\ last.fw = "authorized"
SCInsertOnRealStore ==
    SCAuthorized /\ last.conn0.db = "real" /\ FirstWord(last.query) = "INSERT"
SCRowsBefore == Cardinality(View([db |-> last.db0], last.conn0).rows)
SCRowsAfter == Cardinality(View(World, conn).rows)
SCRanTwice ==
    /\ Len(query_history) = last.nhist0 + 1
    /\ query_history[Len(query_history)].status = "ALLOWED"
    /\ query_history[Len(query_history)].query = full_query(last.query, last.params)
    /\ FirstWord(last.query) \in WriteOps =>
          db["real"] = SqlExec(last.db0["real"], full_query(last.query, last.params)).store
    /\ cur.ran = Append(last.cur0.ran, <<last.query, last.params>>)
SCRaisedBeforeCursor ==
    (SCExecuted /\ last.fw = "raised") => cur = last.cur0 /\ conn = last.conn0

PXClientChunk == last.kind = "client_data"
PXForwarded == {net.to_server[i] : i \in 1..Len(net.to_server)}
PXCarriesQuery(frame) ==
    frame.tag \in {"Q", "P"} /\ ~frame.short /\ strip(frame.query) # <<>>
InjectionReasons ==
    {_STRONG_PATTERNS[k] : k \in 1..Len(_STRONG_PATTERNS)}
    \cup {_WEAK_PATTERNS[k] : k \in 1..Len(_WEAK_PATTERNS)}
    \cup {"Multiple statements or semicolon found", "Always-true OR condition detected"}

\* C30: a chunk from which the proxy extracts a query is attributed to
\* proxy_<client-ip>, is denied with reason "Unknown application" or an
\* injection reason and is not forwarded; no Q or P frame that carries a
\* query is ever written to the backend, only chunks from which no query is
\* extracted are.
C30_NoQueryFrameReachesBackend ==
    /\ (PXClientChunk /\ last.checked) =>
          /\ ~last.authorized
          /\ last.reason \in {"Unknown application"} \cup InjectionReasons
          /\ \A i \in 1..Len(net.to_server) :
                i > Len(last.net0.to_server) => net.to_server[i].tag = "E"
    /\ \A frame \in PXForwarded :
          frame.tag # "E" => extract_postgresql_query(frame) = <<>>
    /\ \A frame \in PXForwarded : frame.tag # "E" => ~PXCarriesQuery(frame)

====
